---- MODULE Spec2Model ----
(***************************************************************************)
(* Model of the Raisely commute proxy (src/index.js).                      *)
(*                                                                         *)
(* src/index.js holds two revisions of the same service, one after the     *)
(* other: the first at lines 1-211, the second at lines 213-409.  The      *)
(* variable `version` says which revision is deployed.                     *)
(*                                                                         *)
(* JavaScript strings are modelled as sequences of one-character strings,  *)
(* so that toLowerCase and trim are computed and not assumed.  A value     *)
(* that may be absent (undefined) is a record [has, val].                  *)
(***************************************************************************)
EXTENDS Integers, Sequences, FiniteSets, TLC

----------------------------------------------------------------------------
(* Bounds of the model *)

\* longest "data" array an upstream body carries
MaxItems == 2
\* number of inbound requests served in one behaviour
MaxRequests == 2
\* the longest activity list the aggregation loop is observed on
MaxList == 4
\* the most profiles a listing of part_002 holds
MaxListed == 2

----------------------------------------------------------------------------
(* State *)

VARIABLES
  version,       \* revision of src/index.js deployed: 1 (lines 1-211) or 2 (lines 213-409)
  haveKey,       \* !!RAISELY_API_KEY
  haveCampaign,  \* !!CAMPAIGN_UUID
  route,         \* the inbound request being handled: "none", "commutes", "probe", "peek"
  pc,            \* the await the handler is suspended at, "idle" or "done"
  tried,         \* the array `tried` of fetchAllActivitiesWithFallback
  results,       \* the statuses stored in `results` by GET /peek
  fetched,       \* the upstream URLs requested for this request, in request order
  answers,       \* what upstream answered to them, in the same order
  out,           \* how fetchAllActivitiesWithFallback ended
  resp,          \* the responses sent for this request
  served,        \* inbound requests completed so far
  act,           \* the activity given to isLikelyCommute
  verdict,       \* what isLikelyCommute returned for it
  commuteTypes,  \* the contents of the module-level array COMMUTE_ACTIVITY_TYPES
  decided,       \* the first decision seen for each activity classified so far
  items,         \* GET /commutes: the activities its loop runs over
  cursor,        \* GET /commutes: how many of them the loop has processed
  individuals,   \* GET /commutes: the Map individuals, rows in insertion order
  teams,         \* GET /commutes: the Map teams
  orgs,          \* GET /commutes: the Map orgs
  pager,         \* a call of the paginating fetchAllActivities (part_000, part_002)
  inflight,      \* two GET /commutes requests in flight: the locals of each
  triedOf,       \* the array  const tried = []  of each of their resolver calls
  p3,            \* a request to part_003: its handler and its fetchActivities call
  sel,           \* a call of listProfilesSmart (part_001)
  board,         \* a request to GET /commutes of part_002, third definition
  lister         \* a call of listAll (part_002)

\* the aggregation loop of GET /commutes, when it is not observed step by step
loopVars == <<items, cursor, individuals, teams, orgs>>
LoopIdle ==
  /\ items = << >>
  /\ cursor = 0
  /\ individuals = << >>
  /\ teams = << >>
  /\ orgs = << >>

\* no call of the paginating fetchAllActivities
PagerIdle ==
  [part |-> "none", pc |-> "idle", page |-> 0, all |-> 0, log |-> << >>,
   res |-> [net |-> "none"], last |-> 0, message |-> << >>]

\* the two requests in flight at once, when they are not observed
pairVars == <<inflight, triedOf>>
PairIdle == inflight = << >> /\ triedOf = << >>

\* no request to part_003
NoOut3 == [state |-> "none", path |-> "", usedEndpoint |-> "", items |-> << >>,
           status |-> 0, message |-> ""]
P3Idle ==
  [route |-> "none", pc |-> "idle", k |-> 0, profiles |-> << >>, pi |-> 0,
   all |-> << >>, asked |-> << >>, got |-> << >>, out |-> NoOut3,
   resp |-> [sent |-> 0, status |-> 0, body |-> [kind |-> "none"]]]

\* the calls of part_001 and part_002, when there are none
laterVars == <<sel, board, lister>>
LaterIdle ==
  /\ sel = [pc |-> "idle"]
  /\ board = [pc |-> "idle"]
  /\ lister = [pc |-> "idle"]

\* the variables that the handlers of src/index.js as a whole leave alone
extra == <<commuteTypes, decided, loopVars, pager, pairVars, p3, laterVars>>

vars == <<version, haveKey, haveCampaign, route, pc, tried, results, fetched,
          answers, out, resp, served, act, verdict, extra>>

----------------------------------------------------------------------------
(* Strings *)

sEmpty == << >>
sManual == <<"m","a","n","u","a","l">>
sManualUp == <<"M","A","N","U","A","L">>
sManualCap == <<"M","a","n","u","a","l">>
sManualSp == <<" ","m","a","n","u","a","l">>
sStrava == <<"s","t","r","a","v","a">>
sStravaCap == <<"S","t","r","a","v","a">>
sStravaUp == <<"S","T","R","A","V","A">>
sFitbit == <<"f","i","t","b","i","t">>

sRun == <<"R","u","n">>
sWalk == <<"W","a","l","k">>
sRide == <<"R","i","d","e">>
sEBikeRide == <<"E","-","B","i","k","e"," ","R","i","d","e">>
sScooter == <<"S","c","o","o","t","e","r">>
sCommute == <<"C","o","m","m","u","t","e">>
sTransit == <<"T","r","a","n","s","i","t">>
sBus == <<"B","u","s">>
sFerry == <<"F","e","r","r","y">>
sYoga == <<"Y","o","g","a">>
sRideLower == <<"r","i","d","e">>
sRidePadded == <<" ","R","i","d","e"," ">>
sBlank == <<" "," ">>
sBikeRide == <<"B","i","k","e"," ","R","i","d","e">>

\* an absent (undefined) property, and a present string property
Undef == [has |-> FALSE, val |-> sEmpty]
Str(s) == [has |-> TRUE, val |-> s]

\* x || "" for an optional string x: undefined and "" are both falsy
OrEmpty(x) == IF x.has /\ x.val # sEmpty THEN x.val ELSE sEmpty

UpperToLower ==
  [A |-> "a", B |-> "b", C |-> "c", D |-> "d", E |-> "e", F |-> "f",
   G |-> "g", H |-> "h", I |-> "i", J |-> "j", K |-> "k", L |-> "l",
   M |-> "m", N |-> "n", O |-> "o", P |-> "p", Q |-> "q", R |-> "r",
   S |-> "s", T |-> "t", U |-> "u", V |-> "v", W |-> "w", X |-> "x",
   Y |-> "y", Z |-> "z"]

\* String.prototype.toLowerCase
toLowerCase(s) ==
  [i \in 1..Len(s) |->
     IF s[i] \in DOMAIN UpperToLower THEN UpperToLower[s[i]] ELSE s[i]]

WhiteSpace == {" ", "\t", "\n"}

\* String.prototype.trim: drops the white space at both ends
trim(s) ==
  LET keep == {i \in 1..Len(s) : s[i] \notin WhiteSpace}
  IN  IF keep = {} THEN sEmpty
      ELSE LET lo == CHOOSE i \in keep : \A j \in keep : i <= j
               hi == CHOOSE i \in keep : \A j \in keep : j <= i
           IN  SubSeq(s, lo, hi)

----------------------------------------------------------------------------
(* The commute classifier *)

COMMUTE_ACTIVITY_TYPES ==
  <<sRun, sWalk, sRide, sEBikeRide, sScooter, sCommute, sTransit, sBus, sFerry>>

\* Array.prototype.includes
includes(arr, x) == \E i \in 1..Len(arr) : arr[i] = x

\* JSON scalars found under a flag key; t is the JavaScript type
JUndef == [t |-> "undefined", v |-> "undefined"]
JTrue == [t |-> "boolean", v |-> "true"]
JFalse == [t |-> "boolean", v |-> "false"]
JStrTrue == [t |-> "string", v |-> "true"]
JStrOne == [t |-> "string", v |-> "1"]
JStrYes == [t |-> "string", v |-> "yes"]
JNumOne == [t |-> "number", v |-> "1"]
JNumTwo == [t |-> "number", v |-> "2"]
JNumZero == [t |-> "number", v |-> "0"]

STRAVA_COMMUTE_FLAG_KEYS == <<"commute", "is_commute", "isCommute">>

\* a meta / metadata object: absent, or an object with the three flag keys
NoObject == [has |-> FALSE, commute |-> JUndef, is_commute |-> JUndef, isCommute |-> JUndef]
MetaObj(c, ic, icc) == [has |-> TRUE, commute |-> c, is_commute |-> ic, isCommute |-> icc]

\* slip: any truthy value counts as a set flag
FlagIsSet_truthy(v) == v \notin {JUndef, JFalse, JNumZero}

\* v === true || v === "true" || v === 1 || v === "1"
FlagIsSet(v) == v = JTrue \/ v = JStrTrue \/ v = JNumOne \/ v = JStrOne

\* a.meta || a.metadata || {}   (an object, even an empty one, is truthy)
EffectiveMeta(a) ==
  IF a.meta.has THEN a.meta
  ELSE IF a.metadata.has THEN a.metadata
  ELSE MetaObj(JUndef, JUndef, JUndef)

\* STRAVA_COMMUTE_FLAG_KEYS.some(k => ...)
flagged(a) ==
  LET meta == EffectiveMeta(a)
  IN  \E i \in 1..Len(STRAVA_COMMUTE_FLAG_KEYS) :
        FlagIsSet(meta[STRAVA_COMMUTE_FLAG_KEYS[i]])

\* slip: the decision depends on module-level state that requests change
isLikelyCommute_stateful(a) ==
  LET fromManual == toLowerCase(OrEmpty(a.source)) = sManual
      fromStrava == toLowerCase(OrEmpty(a.source)) = sStrava
      type == trim(OrEmpty(a.type))
      typeIsCommute == includes(commuteTypes, type)
  IN  IF fromManual /\ (type = sEmpty \/ typeIsCommute) THEN served = 0
      ELSE IF fromStrava /\ (flagged(a) \/ typeIsCommute) THEN TRUE
      ELSE FALSE

isLikelyCommute(a) ==
  LET fromManual == toLowerCase(OrEmpty(a.source)) = sManual
      fromStrava == toLowerCase(OrEmpty(a.source)) = sStrava
      type == trim(OrEmpty(a.type))
      typeIsCommute == includes(commuteTypes, type)
  IN  IF fromManual /\ (type = sEmpty \/ typeIsCommute) THEN TRUE
      ELSE IF fromStrava /\ (flagged(a) \/ typeIsCommute) THEN TRUE
      ELSE FALSE

----------------------------------------------------------------------------
(* Activities as the aggregation reads them *)

\* x || y on identifiers and names, where "" stands for a missing or empty value
Or(x, y) == IF x # "" THEN x ELSE y

NoProfile == [has |-> FALSE, uuid |-> "", profileUuid |-> "", fullName |-> "", name |-> "", thumb |-> ""]
NoTeam == [has |-> FALSE, uuid |-> "", teamUuid |-> "", name |-> ""]
NoOrganisation == [has |-> FALSE, uuid |-> "", organisationUuid |-> "", name |-> ""]

Activity(src, ty, m, md, p, t, o) ==
  [source |-> src, type |-> ty, meta |-> m, metadata |-> md,
   profile |-> p, team |-> t, organisation |-> o]

profAnn == [has |-> TRUE, uuid |-> "p1", profileUuid |-> "", fullName |-> "Ann", name |-> "ann", thumb |-> "ann.png"]
profBob == [has |-> TRUE, uuid |-> "", profileUuid |-> "p2", fullName |-> "", name |-> "Bob", thumb |-> ""]
teamRed == [has |-> TRUE, uuid |-> "t1", teamUuid |-> "", name |-> "Red"]
teamBlue == [has |-> TRUE, uuid |-> "", teamUuid |-> "t2", name |-> ""]
orgAcme == [has |-> TRUE, uuid |-> "o1", organisationUuid |-> "", name |-> "Acme"]

\* the activities upstream bodies are built from
actManualRide == Activity(Str(sManual), Str(sRide), NoObject, NoObject, profAnn, teamRed, NoOrganisation)
actStravaYoga == Activity(Str(sStrava), Str(sYoga), MetaObj(JUndef, JUndef, JUndef), NoObject, profBob, teamRed, orgAcme)
actStravaFlagged == Activity(Str(sStravaCap), Str(sYoga), MetaObj(JTrue, JUndef, JUndef), NoObject, profBob, teamBlue, orgAcme)
actManualUntyped == Activity(Str(sManualUp), Undef, NoObject, NoObject, NoProfile, teamBlue, NoOrganisation)

SampleActivities == {actManualRide, actStravaYoga, actStravaFlagged, actManualUntyped}

RECURSIVE SeqsUpTo(_, _)
SeqsUpTo(S, n) ==
  IF n = 0 THEN {<< >>}
  ELSE LET shorter == SeqsUpTo(S, n - 1)
       IN  shorter \cup {Append(q, x) : q \in {r \in shorter : Len(r) = n - 1}, x \in S}

DataArrays == SeqsUpTo(SampleActivities, MaxItems)

----------------------------------------------------------------------------
(* Upstream answers *)

\* an upstream body: text that parses as JSON or not, with or without "data"
Body(parses, hasData, data) == [parses |-> parses, hasData |-> hasData, data |-> data]
BodyInvalid == Body(FALSE, FALSE, << >>)
BodyNoData == Body(TRUE, FALSE, << >>)

\* bodies of a 200 answer, and of an error answer
OkBodies == {BodyInvalid, BodyNoData} \cup {Body(TRUE, TRUE, d) : d \in DataArrays}
ErrBodies == {BodyInvalid, BodyNoData, Body(TRUE, TRUE, <<actManualRide>>)}

Statuses == {200, 404, 401}

\* what fetch() gives: a response, or a rejection (network failure)
Response(st, b) == [net |-> "ok", status |-> st, body |-> b]
NetworkError == [net |-> "error", status |-> 0, body |-> BodyInvalid]
Answers ==
  {Response(200, b) : b \in OkBodies}
  \cup {Response(st, b) : st \in Statuses \ {200}, b \in ErrBodies}
  \cup {NetworkError}

\* a parsed JSON value, or null
JsonNull == [isNull |-> TRUE, hasData |-> FALSE, data |-> << >>]
Json(b) == [isNull |-> FALSE, hasData |-> b.hasData, data |-> b.data]

\* await res.json(): the parsed value, or a rejection when the text does not parse
resJson(b) == IF b.parses THEN [threw |-> FALSE, value |-> Json(b)]
              ELSE [threw |-> TRUE, value |-> JsonNull]

\* slip: a body that is not JSON is read as an empty object
resJsonOrNull_emptyObject(b) ==
  IF resJson(b).threw THEN [isNull |-> FALSE, hasData |-> FALSE, data |-> << >>]
  ELSE resJson(b).value

\* try { return await res.json(); } catch { return null; }  /  res.json().catch(() => null)
resJsonOrNull(b) == IF resJson(b).threw THEN JsonNull ELSE resJson(b).value

\* json?.data || []
dataOrEmpty(json) == IF ~json.isNull /\ json.hasData THEN json.data ELSE << >>

----------------------------------------------------------------------------
(* The aggregation of GET /commutes *)

\* slip: an existing row is overwritten without adding to its points
bump_noIncrement(rows, id, fresh) ==
  IF \E i \in 1..Len(rows) : rows[i].uuid = id
    THEN [i \in 1..Len(rows) |->
            IF rows[i].uuid = id THEN [rows[i] EXCEPT !.points = 1] ELSE rows[i]]
    ELSE Append(rows, [fresh EXCEPT !.points = 1])

\* a Map keyed by uuid is a sequence of rows in insertion order
\* cur = map.get(id) || fresh;  cur.points += 1;  map.set(id, cur)
bump(rows, id, fresh) ==
  IF \E i \in 1..Len(rows) : rows[i].uuid = id
    THEN [i \in 1..Len(rows) |->
            IF rows[i].uuid = id THEN [rows[i] EXCEPT !.points = @ + 1] ELSE rows[i]]
    ELSE Append(rows, [fresh EXCEPT !.points = 1])

EmptyBoards == [individuals |-> << >>, teams |-> << >>, orgs |-> << >>]

\* a turn of the loop  for (const a of items)  for an activity that qualifies
countActivity(acc, a) ==
    LET p == a.profile
        pid == Or(p.uuid, p.profileUuid)
        t == a.team
        tid == Or(t.uuid, t.teamUuid)
        o == a.organisation
        oid == Or(o.uuid, o.organisationUuid)
    IN  [individuals |->
           IF pid # ""
             THEN bump(acc.individuals, pid,
                       [uuid |-> pid, name |-> Or(Or(p.fullName, p.name), "Anonymous"),
                        avatar |-> Or(p.thumb, "null"), points |-> 0])
             ELSE acc.individuals,
         teams |->
           IF tid # ""
             THEN bump(acc.teams, tid, [uuid |-> tid, name |-> Or(t.name, "Team"), points |-> 0])
             ELSE acc.teams,
         orgs |->
           IF oid # ""
             THEN bump(acc.orgs, oid, [uuid |-> oid, name |-> Or(o.name, "Organisation"), points |-> 0])
             ELSE acc.orgs]

\* slip: the turn of the loop goes on without the test of isLikelyCommute
addActivity_countsAll(acc, a) == countActivity(acc, a)

\* one turn of the loop  for (const a of items)
addActivity(acc, a) ==
  IF ~isLikelyCommute(a) THEN acc ELSE countActivity(acc, a)

RECURSIVE accumulate(_, _)
accumulate(acc, list) ==
  IF list = << >> THEN acc
  ELSE accumulate(addActivity(acc, Head(list)), Tail(list))

\* slip: the comparator is a.points - b.points
byPoints_ascending(a, b) == a.points - b.points

\* the comparator  (a, b) => b.points - a.points
byPoints(a, b) == b.points - a.points

\* slip: a row is put before the rows that compare equal to it
insertDesc_unstable(sorted, r) ==
  LET before == {i \in 1..Len(sorted) : byPoints(sorted[i], r) < 0}
      k == Cardinality(before)
  IN  SubSeq(sorted, 1, k) \o <<r>> \o SubSeq(sorted, k + 1, Len(sorted))

\* Array.prototype.sort with that comparator; the sort is stable: a row goes
\* after the rows that the comparator does not put behind it
insertDesc(sorted, r) ==
  LET before == {i \in 1..Len(sorted) : byPoints(sorted[i], r) <= 0}
      k == Cardinality(before)
  IN  SubSeq(sorted, 1, k) \o <<r>> \o SubSeq(sorted, k + 1, Len(sorted))

\* slip: the rows are sent in insertion order
sortDesc_none(rows) == rows

RECURSIVE sortDesc(_)
sortDesc(rows) ==
  IF rows = << >> THEN << >>
  ELSE insertDesc(sortDesc(SubSeq(rows, 1, Len(rows) - 1)), rows[Len(rows)])

leaderboards(list) ==
  LET acc == accumulate(EmptyBoards, list)
  IN  [individuals |-> sortDesc(acc.individuals),
       teams |-> sortDesc(acc.teams),
       organisations |-> sortDesc(acc.orgs)]

----------------------------------------------------------------------------
(* The service *)

urlA == "/campaigns/{id}/activities?order=desc&sort=createdAt&limit=100"
urlB == "/activities?campaign={id}&order=desc&sort=createdAt&limit=100"
urlC == "/campaign-profiles/{id}/activities?order=desc&sort=createdAt&limit=100"
urlD == "/activities?campaignProfile={id}&order=desc&sort=createdAt&limit=100"

peekCampaign == "/campaigns/{id}"
peekProfile == "/campaign-profiles/{id}"
peekByCampaign == "/activities?campaign={id}&limit=1"
peekByCampaignProfile == "/activities?campaignProfile={id}&limit=1"
peekAnyActivities == "/activities?limit=1"

\* the four sequential checks of the first revision's GET /peek
PeekUrls == <<peekCampaign, peekProfile, peekByCampaign, peekByCampaignProfile>>
\* the three parallel checks of the second revision's GET /peek
PeekAllUrls == <<peekCampaign, peekProfile, peekAnyActivities>>

msgMissingKey == "Missing RAISELY_API_KEY"
msgMissingCampaign == "Missing CAMPAIGN_UUID"
msgNot200 == "Raisely API did not return 200"
msgBadJson == "invalid json response body"
msgNetwork == "request failed"

\* e.detail || null
NullDetail == [isNull |-> TRUE, tried |-> << >>, lastStatus |-> 0, lastBody |-> JsonNull]
\* slip: the status of the last answer is not copied into the detail
Detail_noStatus(tr, st, b) == [isNull |-> FALSE, tried |-> tr, lastStatus |-> 0, lastBody |-> b]

Detail(tr, st, b) == [isNull |-> FALSE, tried |-> tr, lastStatus |-> st, lastBody |-> b]

\* the ways fetchAllActivitiesWithFallback goes on after an await
NoOut == [state |-> "none", items |-> << >>, used |-> "", status |-> 0,
          message |-> "", detail |-> NullDetail]
Pending == [NoOut EXCEPT !.state = "pending"]
Returned(list, used, st) ==
  [state |-> "returned", items |-> list, used |-> used, status |-> st,
   message |-> "", detail |-> NullDetail]
Threw(msg, detail) ==
  [state |-> "threw", items |-> << >>, used |-> "", status |-> 0,
   message |-> msg, detail |-> detail]

\* slip: the campaign identifier is checked before the key
checkConfig_campaignFirst ==
  IF ~haveCampaign THEN Threw(msgMissingCampaign, NullDetail)
  ELSE IF ~haveKey THEN Threw(msgMissingKey, NullDetail)
  ELSE Pending

\* lines 44-46 / 257-258: the configuration checks
checkConfig ==
  IF ~haveKey THEN Threw(msgMissingKey, NullDetail)
  ELSE IF ~haveCampaign THEN Threw(msgMissingCampaign, NullDetail)
  ELSE Pending

\* after  res = await fetch(urlA)
\* revision 1 awaits res.json() unguarded, revision 2 adds .catch(() => null)
afterA(ans) ==
  IF ans.net = "error" THEN Threw(msgNetwork, NullDetail)
  ELSE IF ans.status = 200
    THEN IF version = 1
           THEN IF resJson(ans.body).threw
                  THEN Threw(msgBadJson, NullDetail)
                  ELSE Returned(dataOrEmpty(resJson(ans.body).value), urlA, ans.status)
           ELSE Returned(dataOrEmpty(resJsonOrNull(ans.body)), urlA, ans.status)
    ELSE Pending

\* after  res = await fetch(urlB)  and  res = await fetch(urlC)
afterMiddle(url, ans) ==
  IF ans.net = "error" THEN Threw(msgNetwork, NullDetail)
  ELSE IF ans.status = 200
    THEN Returned(dataOrEmpty(resJsonOrNull(ans.body)), url, ans.status)
    ELSE Pending

\* slip: the detail keeps only the URL requested last
afterD_onlyLast(ans, tr) ==
  IF ans.net = "error" THEN Threw(msgNetwork, NullDetail)
  ELSE IF ans.status = 200
    THEN Returned(dataOrEmpty(resJsonOrNull(ans.body)), urlD, ans.status)
    ELSE Threw(msgNot200, Detail(<<tr[Len(tr)]>>, ans.status, resJsonOrNull(ans.body)))

\* after  res = await fetch(urlD)
afterD(ans, tr) ==
  IF ans.net = "error" THEN Threw(msgNetwork, NullDetail)
  ELSE IF ans.status = 200
    THEN Returned(dataOrEmpty(resJsonOrNull(ans.body)), urlD, ans.status)
    ELSE Threw(msgNot200, Detail(tr, ans.status, resJsonOrNull(ans.body)))

env == [haveKey |-> haveKey, haveCampaign |-> haveCampaign]

NoResponse == [sent |-> 0, status |-> 0, body |-> [kind |-> "none"]]
Send(r, st, body) == [sent |-> r.sent + 1, status |-> st, body |-> body]

\* GET /commutes once fetchAllActivitiesWithFallback has ended
\* the catch of revision 1 sends { error }, that of revision 2 { error, detail }
commutesResponse(r, o) ==
  IF o.state = "returned"
    THEN LET b == leaderboards(o.items)
         IN  Send(r, 200, [kind |-> "leaderboard", individuals |-> b.individuals,
                           teams |-> b.teams, organisations |-> b.organisations])
    ELSE IF version = 1
      THEN Send(r, 500, [kind |-> "error", error |-> o.message])
      ELSE Send(r, 500, [kind |-> "error", error |-> o.message, detail |-> o.detail])

\* items.slice(0, 2)
slice2(list) == SubSeq(list, 1, IF Len(list) < 2 THEN Len(list) ELSE 2)

\* GET /probe once fetchAllActivitiesWithFallback has ended
probeResponse(r, o) ==
  IF o.state = "returned"
    THEN Send(r, 200, [kind |-> "probe", ok |-> TRUE, usedEndpoint |-> o.used,
                       status |-> o.status, count |-> Len(o.items),
                       sample |-> slice2(o.items), env |-> env])
    ELSE Send(r, 500, [kind |-> "probe", ok |-> FALSE, error |-> o.message,
                       detail |-> o.detail, env |-> env])

handlerResponse(rt, r, o) ==
  IF rt = "commutes" THEN commutesResponse(r, o) ELSE probeResponse(r, o)

NoVerdict == [called |-> FALSE, value |-> FALSE]

Init ==
  /\ version \in {1, 2}
  /\ haveKey \in BOOLEAN
  /\ haveCampaign \in BOOLEAN
  /\ route = "none"
  /\ pc = "idle"
  /\ tried = << >>
  /\ results = << >>
  /\ fetched = << >>
  /\ answers = << >>
  /\ out = NoOut
  /\ resp = NoResponse
  /\ served = 0
  /\ act = actManualRide
  /\ verdict = NoVerdict
  /\ commuteTypes = COMMUTE_ACTIVITY_TYPES
  /\ decided = << >>
  /\ LoopIdle
  /\ pager = PagerIdle
  /\ PairIdle
  /\ p3 = P3Idle
  /\ LaterIdle

\* a handler that calls fetchAllActivitiesWithFallback, up to its first await
enter(rt) ==
  /\ pc = "idle"
  /\ served < MaxRequests
  /\ route' = rt
  /\ answers' = << >>
  /\ results' = << >>
  /\ IF checkConfig.state = "threw"
       THEN /\ out' = checkConfig
            /\ resp' = handlerResponse(rt, NoResponse, checkConfig)
            /\ tried' = << >>
            /\ fetched' = << >>
            /\ pc' = "done"
       ELSE /\ out' = Pending
            /\ resp' = NoResponse
            /\ tried' = <<urlA>>
            /\ fetched' = <<urlA>>
            /\ pc' = "awaitA"
  /\ UNCHANGED <<extra, version, haveKey, haveCampaign, served, act, verdict>>

GetCommutes == enter("commutes")

GetProbe == enter("probe")

\* slip: a candidate that did not end the call is requested a second time
resume_retry(ans, o, nextUrl, nextPc) ==
  /\ answers' = Append(answers, ans)
  /\ out' = o
  /\ IF o.state = "pending"
       THEN IF Len(fetched) = 1
              THEN /\ tried' = tried
                   /\ fetched' = Append(fetched, fetched[Len(fetched)])
                   /\ pc' = pc
                   /\ resp' = resp
              ELSE /\ tried' = Append(tried, nextUrl)
                   /\ fetched' = Append(fetched, nextUrl)
                   /\ pc' = nextPc
                   /\ resp' = resp
       ELSE /\ tried' = tried
            /\ fetched' = fetched
            /\ pc' = "done"
            /\ resp' = handlerResponse(route, resp, o)
  /\ UNCHANGED <<extra, version, haveKey, haveCampaign, route, results, served, act, verdict>>

\* fetchAllActivitiesWithFallback and its caller after an await: either the next
\* candidate is pushed and requested, or the call ends and the handler responds
resume(ans, o, nextUrl, nextPc) ==
  /\ answers' = Append(answers, ans)
  /\ out' = o
  /\ IF o.state = "pending"
       THEN /\ tried' = Append(tried, nextUrl)
            /\ fetched' = Append(fetched, nextUrl)
            /\ pc' = nextPc
            /\ resp' = resp
       ELSE /\ tried' = tried
            /\ fetched' = fetched
            /\ pc' = "done"
            /\ resp' = handlerResponse(route, resp, o)
  /\ UNCHANGED <<extra, version, haveKey, haveCampaign, route, results, served, act, verdict>>

AnswerA == pc = "awaitA" /\ \E ans \in Answers : resume(ans, afterA(ans), urlB, "awaitB")

AnswerB == pc = "awaitB" /\ \E ans \in Answers : resume(ans, afterMiddle(urlB, ans), urlC, "awaitC")

AnswerC == pc = "awaitC" /\ \E ans \in Answers : resume(ans, afterMiddle(urlC, ans), urlD, "awaitD")

AnswerD == pc = "awaitD" /\ \E ans \in Answers : resume(ans, afterD(ans, tried), urlD, "done")

\* what upstream answers to a check of GET /peek (the body is not read)
PeekAnswers == {Response(st, BodyNoData) : st \in Statuses} \cup {NetworkError}

\* slip: GET /peek refuses to run without its configuration
GetPeek_checksConfig ==
  /\ pc = "idle"
  /\ served < MaxRequests
  /\ route' = "peek"
  /\ answers' = << >>
  /\ results' = << >>
  /\ tried' = << >>
  /\ out' = NoOut
  /\ IF ~haveKey \/ ~haveCampaign
       THEN /\ resp' = Send(NoResponse, 500, [kind |-> "peek", error |-> msgMissingKey, results |-> << >>])
            /\ fetched' = << >>
            /\ pc' = "done"
       ELSE /\ resp' = NoResponse
            /\ IF version = 1
                 THEN fetched' = <<PeekUrls[1]>> /\ pc' = "peek"
                 ELSE fetched' = PeekAllUrls /\ pc' = "peekAll"
  /\ UNCHANGED <<extra, version, haveKey, haveCampaign, served, act, verdict>>

\* GET /peek up to its first await: no configuration check in either revision
GetPeek ==
  /\ pc = "idle"
  /\ served < MaxRequests
  /\ route' = "peek"
  /\ answers' = << >>
  /\ results' = << >>
  /\ tried' = << >>
  /\ out' = NoOut
  /\ resp' = NoResponse
  /\ IF version = 1
       THEN fetched' = <<PeekUrls[1]>> /\ pc' = "peek"
       ELSE fetched' = PeekAllUrls /\ pc' = "peekAll"
  /\ UNCHANGED <<extra, version, haveKey, haveCampaign, served, act, verdict>>

\* slip: revision 1 awaits r1..r4 outside its try block
PeekAnswer_uncaught ==
  /\ pc = "peek"
  /\ \E ans \in PeekAnswers :
       /\ answers' = Append(answers, ans)
       /\ IF ans.net = "error"
            THEN /\ resp' = resp
                 /\ results' = results
                 /\ fetched' = fetched
                 /\ pc' = "rejected"
            ELSE /\ results' = Append(results, ans.status)
                 /\ IF Len(results) + 1 = Len(PeekUrls)
                      THEN /\ resp' = Send(resp, 200, [kind |-> "peek", env |-> env,
                                                       check |-> Append(results, ans.status)])
                           /\ fetched' = fetched
                           /\ pc' = "done"
                      ELSE /\ resp' = resp
                           /\ fetched' = Append(fetched, PeekUrls[Len(results) + 2])
                           /\ pc' = "peek"
  /\ UNCHANGED <<extra, version, haveKey, haveCampaign, route, tried, out, served, act, verdict>>

\* revision 1: r1..r4 are awaited one after the other
PeekAnswer ==
  /\ pc = "peek"
  /\ \E ans \in PeekAnswers :
       /\ answers' = Append(answers, ans)
       /\ IF ans.net = "error"
            THEN /\ resp' = Send(resp, 500, [kind |-> "peek", error |-> msgNetwork, results |-> results])
                 /\ results' = results
                 /\ fetched' = fetched
                 /\ pc' = "done"
            ELSE /\ results' = Append(results, ans.status)
                 /\ IF Len(results) + 1 = Len(PeekUrls)
                      THEN /\ resp' = Send(resp, 200, [kind |-> "peek", env |-> env,
                                                       check |-> Append(results, ans.status)])
                           /\ fetched' = fetched
                           /\ pc' = "done"
                      ELSE /\ resp' = resp
                           /\ fetched' = Append(fetched, PeekUrls[Len(results) + 2])
                           /\ pc' = "peek"
  /\ UNCHANGED <<extra, version, haveKey, haveCampaign, route, tried, out, served, act, verdict>>

\* revision 2: Promise.all over three fetches
PeekAllAnswer ==
  /\ pc = "peekAll"
  /\ \E a1 \in PeekAnswers, a2 \in PeekAnswers, a3 \in PeekAnswers :
       /\ answers' = <<a1, a2, a3>>
       /\ IF a1.net = "error" \/ a2.net = "error" \/ a3.net = "error"
            THEN resp' = Send(resp, 500, [kind |-> "peek", ok |-> FALSE, error |-> msgNetwork])
            ELSE resp' = Send(resp, 200, [kind |-> "peek", env |-> env,
                                          check |-> <<a1.status, a2.status, a3.status>>])
  /\ pc' = "done"
  /\ UNCHANGED <<extra, version, haveKey, haveCampaign, route, tried, results, fetched,
                 out, served, act, verdict>>

\* the handler is over; the process is ready for the next request and keeps nothing
Close ==
  /\ pc = "done"
  /\ pc' = "idle"
  /\ route' = "none"
  /\ tried' = << >>
  /\ results' = << >>
  /\ fetched' = << >>
  /\ answers' = << >>
  /\ out' = NoOut
  /\ resp' = NoResponse
  /\ served' = served + 1
  /\ UNCHANGED <<extra, version, haveKey, haveCampaign, act, verdict>>

Next ==
  \/ GetCommutes
  \/ GetProbe
  \/ GetPeek
  \/ AnswerA
  \/ AnswerB
  \/ AnswerC
  \/ AnswerD
  \/ PeekAnswer
  \/ PeekAllAnswer
  \/ Close

Spec == Init /\ [][Next]_vars

----------------------------------------------------------------------------
(* The classifier on its own: every activity of ClassifierInputs is classified *)

SourceInputs ==
  {Undef, Str(sEmpty), Str(sManual), Str(sManualUp), Str(sManualCap), Str(sManualSp),
   Str(sStrava), Str(sStravaCap), Str(sStravaUp), Str(sFitbit)}

TypeInputs ==
  {Undef, Str(sEmpty), Str(sBlank), Str(sRidePadded), Str(sRideLower), Str(sYoga),
   Str(sBikeRide)} \cup {Str(COMMUTE_ACTIVITY_TYPES[i]) : i \in 1..Len(COMMUTE_ACTIVITY_TYPES)}

FlagValues == {JTrue, JFalse, JStrTrue, JStrOne, JStrYes, JNumOne, JNumTwo, JNumZero}

MetaInputs ==
  {NoObject, MetaObj(JUndef, JUndef, JUndef), MetaObj(JUndef, JTrue, JUndef),
   MetaObj(JUndef, JUndef, JStrOne), MetaObj(JFalse, JUndef, JNumOne)}
  \cup {MetaObj(v, JUndef, JUndef) : v \in FlagValues}

MetadataInputs ==
  {NoObject, MetaObj(JUndef, JUndef, JUndef), MetaObj(JTrue, JUndef, JUndef),
   MetaObj(JUndef, JUndef, JNumOne)}

ClassifierInputs ==
  {Activity(s, t, m, md, NoProfile, NoTeam, NoOrganisation) :
     s \in SourceInputs, t \in TypeInputs, m \in MetaInputs, md \in MetadataInputs}

InitClassify ==
  /\ version = 1
  /\ haveKey = TRUE
  /\ haveCampaign = TRUE
  /\ route = "none"
  /\ pc = "idle"
  /\ tried = << >>
  /\ results = << >>
  /\ fetched = << >>
  /\ answers = << >>
  /\ out = NoOut
  /\ resp = NoResponse
  /\ served = 0
  /\ act \in ClassifierInputs
  /\ verdict = NoVerdict
  /\ commuteTypes = COMMUTE_ACTIVITY_TYPES
  /\ decided = << >>
  /\ LoopIdle
  /\ pager = PagerIdle
  /\ PairIdle
  /\ p3 = P3Idle
  /\ LaterIdle

Classify ==
  /\ ~verdict.called
  /\ verdict' = [called |-> TRUE, value |-> isLikelyCommute(act)]
  /\ UNCHANGED <<extra, version, haveKey, haveCampaign, route, pc, tried, results, fetched,
                 answers, out, resp, served, act>>

NextClassify == Classify

SpecClassify == InitClassify /\ [][NextClassify]_vars

----------------------------------------------------------------------------
(* Properties of the upstream resolver *)

Candidates == <<urlA, urlB, urlC, urlD>>

IsPrefix(s, t) == Len(s) <= Len(t) /\ \A i \in 1..Len(s) : s[i] = t[i]

\* the request is handled by a caller of fetchAllActivitiesWithFallback
InResolver == route \in {"commutes", "probe"}

Is200(ans) == ans.net = "ok" /\ ans.status = 200
IsNon200(ans) == ans.net = "ok" /\ ans.status # 200

\* the "data" a candidate's body carries, none when the body has none
DataOf(ans) == IF ans.body.parses /\ ans.body.hasData THEN ans.body.data ELSE << >>

\* the body of an answer as JSON, null when it is not JSON
ParsedOrNull(ans) ==
  IF ans.body.parses
    THEN [isNull |-> FALSE, hasData |-> ans.body.hasData, data |-> ans.body.data]
    ELSE [isNull |-> TRUE, hasData |-> FALSE, data |-> << >>]

\* all four candidates answered, none of them with 200
TotalFailure ==
  /\ InResolver
  /\ Len(answers) = 4
  /\ \A i \in 1..4 : IsNon200(answers[i])

\* C1: the candidates are requested in the order A, B, C, D; candidate k is
\* requested only after every earlier candidate answered with a non-200 status;
\* the call returns the data of the first candidate that answers 200 and
\* requests no candidate after it.
C1_OrderedFirstSuccess ==
  InResolver =>
    /\ IsPrefix(fetched, Candidates)
    /\ \A k \in 1..Len(fetched) : \A j \in 1..(k - 1) : IsNon200(answers[j])
    /\ \A k \in 1..Len(answers) :
         Is200(answers[k]) =>
           /\ Len(fetched) = k
           /\ out.state = "returned"
           /\ out.items = DataOf(answers[k])

\* C2: when the first 200 is at position k, the call returns the data of
\* candidate k, reports candidate k's URL as the one used, and has made and
\* recorded exactly k attempts.
C2_FirstOkAtK ==
  \A k \in 1..4 :
    (InResolver /\ Len(answers) = k /\ Is200(answers[k])) =>
      /\ out.state = "returned"
      /\ out.items = DataOf(answers[k])
      /\ out.used = Candidates[k]
      /\ out.status = 200
      /\ fetched = SubSeq(Candidates, 1, k)
      /\ tried = SubSeq(Candidates, 1, k)

\* C3: when all four candidates answer non-200, the call throws an error whose
\* detail.tried is the four URLs, once each, in request order.
C3_AllFailedListsTried ==
  TotalFailure =>
    /\ out.state = "threw"
    /\ ~out.detail.isNull
    /\ out.detail.tried = <<urlA, urlB, urlC, urlD>>
    /\ out.detail.tried = fetched

C3_Witness ==
  /\ TotalFailure
  /\ out.state = "threw"
  /\ answers[4].status = 401
  /\ Len(out.detail.tried) = 4

\* C4: in the first revision, with both configuration values present, a call
\* in which some candidate answered 200, whatever its body, returns normally.
C4_ThrowsOnlyIfAllFail ==
  (version = 1 /\ haveKey /\ haveCampaign /\ InResolver /\ pc = "done"
     /\ \E i \in 1..Len(answers) : Is200(answers[i]))
  => out.state = "returned"

\* the (URL, status) pairs that can be read from an error detail
DetailPairs(d) ==
  IF d.isNull \/ d.tried = << >> THEN {}
  ELSE {<<d.tried[Len(d.tried)], d.lastStatus>>}

\* C5 as stated: after a total failure the diagnostics hold one (URL, status)
\* pair for every candidate attempted.
C5_PairPerAttempt ==
  TotalFailure =>
    \A i \in 1..Len(fetched) : <<fetched[i], answers[i].status>> \in DetailPairs(out.detail)

\* C5 as amended: the resolver records the URL of every candidate attempted and
\* the status of the last one only; after a total failure the diagnostics hold
\* the four URLs in request order, and as lastStatus and lastBody the status
\* and the parsed body (null when not JSON) of candidate D.
C5_UrlsAndLastStatus ==
  /\ InResolver => tried = fetched
  /\ TotalFailure =>
       /\ out.detail.tried = fetched
       /\ out.detail.lastStatus = answers[4].status
       /\ out.detail.lastBody = ParsedOrNull(answers[4])
       /\ DetailPairs(out.detail) = {<<fetched[4], answers[4].status>>}

C5_Witness ==
  /\ TotalFailure
  /\ answers[1].status = 404
  /\ answers[4].status = 401
  /\ out.detail.lastStatus = 401
  /\ out.detail.lastBody.isNull

\* C6: in the first revision, when all four candidates answer non-200, GET
\* /commutes and GET /probe answer 500 with a body that bundles the attempted
\* URLs and the upstream status.
C6_FailureBundlesAttempts ==
  (version = 1 /\ TotalFailure /\ pc = "done") =>
    /\ resp.sent = 1
    /\ resp.status = 500
    /\ "detail" \in DOMAIN resp.body
    /\ resp.body.detail.tried = fetched
    /\ resp.body.detail.lastStatus = answers[4].status

ConfigMissing == ~haveKey \/ ~haveCampaign

\* C7: with RAISELY_API_KEY or CAMPAIGN_UUID missing, GET /commutes and GET
\* /probe answer at once with 500 and the message "Missing RAISELY_API_KEY" or
\* "Missing CAMPAIGN_UUID", the key being checked first, and no upstream
\* request is issued.
C7_MissingConfigFailsAtOnce ==
  (InResolver /\ ConfigMissing) =>
    /\ pc = "done"
    /\ fetched = << >>
    /\ answers = << >>
    /\ resp.sent = 1
    /\ resp.status = 500
    /\ resp.body.error = (IF ~haveKey THEN "Missing RAISELY_API_KEY" ELSE "Missing CAMPAIGN_UUID")

C7_Witness ==
  /\ route = "probe"
  /\ ~haveKey
  /\ ~haveCampaign
  /\ resp.status = 500
  /\ resp.body.error = "Missing RAISELY_API_KEY"

\* C8 as stated: with a configuration value missing, GET /peek of the first
\* revision answers at once with 500 and issues no upstream request.
C8_PeekFailsAtOnce ==
  (version = 1 /\ route = "peek" /\ ConfigMissing) =>
    /\ pc = "done"
    /\ fetched = << >>
    /\ resp.status = 500

\* C8 as amended: GET /peek of the first revision does not check the
\* configuration.  With a value missing it still issues its upstream requests;
\* it answers 200, with env.haveKey and env.haveCampaign telling what is
\* missing, once all four returned, and 500 only when a request throws.
C8_PeekIgnoresConfig ==
  (version = 1 /\ route = "peek" /\ ConfigMissing) =>
    /\ Len(fetched) >= 1
    /\ IsPrefix(fetched, PeekUrls)
    /\ pc # "done" => resp.sent = 0 /\ Len(fetched) = Len(answers) + 1
    /\ pc = "done" =>
         /\ resp.sent = 1
         /\ Len(fetched) = Len(answers)
         /\ IF answers[Len(answers)].net = "error"
              THEN resp.status = 500
              ELSE /\ Len(answers) = 4
                   /\ resp.status = 200
                   /\ resp.body.env = [haveKey |-> haveKey, haveCampaign |-> haveCampaign]

C8_Witness ==
  /\ version = 1
  /\ route = "peek"
  /\ ~haveKey
  /\ pc = "done"
  /\ Len(fetched) = 4
  /\ resp.status = 200
  /\ ~resp.body.env.haveKey

\* C9: in the first revision a body that is not JSON, on any of the four
\* candidates, is treated as absent: items = [] on a 200, lastBody = null on the
\* final failure, and the call never ends with the parse failure.
C9_ParseFailureSwallowed ==
  (version = 1 /\ InResolver /\ pc = "done" /\ answers # << >>
     /\ answers[Len(answers)].net = "ok" /\ ~answers[Len(answers)].body.parses)
  => /\ out.message # msgBadJson
     /\ Is200(answers[Len(answers)]) => out.state = "returned" /\ out.items = << >>
     /\ TotalFailure => out.state = "threw" /\ out.detail.lastBody.isNull

----------------------------------------------------------------------------
(* Properties of the classifier *)

\* s is the word w up to the case of its letters
EqIgnoreCase(s, w) ==
  /\ Len(s) = Len(w)
  /\ \A i \in 1..Len(s) :
       \/ s[i] = w[i]
       \/ s[i] \in DOMAIN UpperToLower /\ UpperToLower[s[i]] = w[i]

RECURSIVE DropLeading(_)
DropLeading(s) ==
  IF s # << >> /\ Head(s) \in {" ", "\t", "\n"} THEN DropLeading(Tail(s)) ELSE s

RECURSIVE DropTrailing(_)
DropTrailing(s) ==
  IF s # << >> /\ s[Len(s)] \in {" ", "\t", "\n"}
    THEN DropTrailing(SubSeq(s, 1, Len(s) - 1))
    ELSE s

SourceIs(a, w) == a.source.has /\ EqIgnoreCase(a.source.val, w)

TrimmedType(a) == IF a.type.has THEN DropTrailing(DropLeading(a.type.val)) ELSE << >>

RecognisedTypes == {sRun, sWalk, sRide, sEBikeRide, sScooter, sCommute, sTransit, sBus, sFerry}

HasCommuteFlag(m) ==
  /\ m.has
  /\ \E v \in {m.commute, m.is_commute, m.isCommute} : v \in {JTrue, JStrTrue, JNumOne, JStrOne}

exManualRide == Activity(Str(sManual), Str(sRide), NoObject, NoObject, NoProfile, NoTeam, NoOrganisation)
exStravaYoga ==
  Activity(Str(sStrava), Str(sYoga), MetaObj(JUndef, JUndef, JUndef), NoObject,
           NoProfile, NoTeam, NoOrganisation)

Examples ==
  /\ act = exManualRide => verdict.value
  /\ act = exStravaYoga => ~verdict.value

\* C10 as stated: the result is true exactly when (source is "manual" and the
\* trimmed type is empty or recognised) or (source is "strava" and a commute
\* flag in meta or in metadata is set, or the trimmed type is recognised).
C10_FlagInMetaOrMetadata ==
  verdict.called =>
    /\ verdict.value <=>
         \/ /\ SourceIs(act, sManual)
            /\ TrimmedType(act) = << >> \/ TrimmedType(act) \in RecognisedTypes
         \/ /\ SourceIs(act, sStrava)
            /\ \/ HasCommuteFlag(act.meta)
               \/ HasCommuteFlag(act.metadata)
               \/ TrimmedType(act) \in RecognisedTypes
    /\ Examples

\* C10 as amended: as stated, but the commute flag is read from one object only:
\* from meta when the activity has a meta object, from metadata otherwise.
C10_FlagInMetaElseMetadata ==
  verdict.called =>
    /\ verdict.value <=>
         \/ /\ SourceIs(act, sManual)
            /\ TrimmedType(act) = << >> \/ TrimmedType(act) \in RecognisedTypes
         \/ /\ SourceIs(act, sStrava)
            /\ \/ HasCommuteFlag(IF act.meta.has THEN act.meta ELSE act.metadata)
               \/ TrimmedType(act) \in RecognisedTypes
    /\ Examples

C10_Witness ==
  /\ verdict.called
  /\ ~verdict.value
  /\ act.source = Str(sStravaCap)
  /\ act.type = Str(sYoga)
  /\ act.meta = MetaObj(JUndef, JUndef, JUndef)
  /\ act.metadata = MetaObj(JTrue, JUndef, JUndef)

----------------------------------------------------------------------------
(* The classifier called again and again while requests are served *)

\* the service's own state
svc == <<version, haveKey, haveCampaign, route, pc, tried, results, fetched,
         answers, out, resp, served>>

PureInputs == {actManualRide, actStravaYoga, actManualUntyped}

\* what upstream answers in the specifications that interleave requests
FewAnswers ==
  {Response(200, Body(TRUE, TRUE, <<actManualRide, actStravaYoga>>)),
   Response(404, BodyNoData), NetworkError}

\* the resumption of fetchAllActivitiesWithFallback on an answer drawn from S
answerFrom(S) ==
  \/ pc = "awaitA" /\ \E ans \in S : resume(ans, afterA(ans), urlB, "awaitB")
  \/ pc = "awaitB" /\ \E ans \in S : resume(ans, afterMiddle(urlB, ans), urlC, "awaitC")
  \/ pc = "awaitC" /\ \E ans \in S : resume(ans, afterMiddle(urlC, ans), urlD, "awaitD")
  \/ pc = "awaitD" /\ \E ans \in S : resume(ans, afterD(ans, tried), urlD, "done")

AnswerFew == answerFrom(FewAnswers)

InitPure ==
  /\ version \in {1, 2}
  /\ haveKey = TRUE
  /\ haveCampaign = TRUE
  /\ route = "none"
  /\ pc = "idle"
  /\ tried = << >>
  /\ results = << >>
  /\ fetched = << >>
  /\ answers = << >>
  /\ out = NoOut
  /\ resp = NoResponse
  /\ served = 0
  /\ act \in PureInputs
  /\ verdict = NoVerdict
  /\ commuteTypes = COMMUTE_ACTIVITY_TYPES
  /\ decided = << >>
  /\ LoopIdle
  /\ pager = PagerIdle
  /\ PairIdle
  /\ p3 = P3Idle
  /\ LaterIdle

\* a caller takes the next activity to classify; the decision just made is
\* remembered if it is the first one for its activity
Pick ==
  /\ verdict.called
  /\ \E a \in PureInputs : act' = a
  /\ verdict' = NoVerdict
  /\ decided' = IF act \in DOMAIN decided THEN decided
                ELSE (act :> [value |-> verdict.value, at |-> served]) @@ decided
  /\ UNCHANGED <<svc, commuteTypes, loopVars, pager, pairVars, p3, laterVars>>

NextPure ==
  \/ Pick
  \/ Classify
  \/ GetCommutes
  \/ GetProbe
  \/ GetPeek
  \/ AnswerFew
  \/ PeekAnswer
  \/ PeekAllAnswer
  \/ Close

SpecPure == InitPure /\ [][NextPure]_vars

----------------------------------------------------------------------------
(* The aggregation loop of GET /commutes, one activity at a time *)

profAnna == [has |-> TRUE, uuid |-> "p1", profileUuid |-> "", fullName |-> "Anna", name |-> "", thumb |-> ""]
teamGreen == [has |-> TRUE, uuid |-> "t3", teamUuid |-> "", name |-> "Green"]
orgUnnamed == [has |-> TRUE, uuid |-> "", organisationUuid |-> "o1", name |-> ""]

\* a second commute of profile p1, under another name, for a third team
actManualWalk == Activity(Str(sManual), Str(sWalk), NoObject, NoObject, profAnna, teamGreen, orgUnnamed)

LoopActivities == SampleActivities \cup {actManualWalk}
LoopInputs == SeqsUpTo(LoopActivities, MaxList)

\* the handler of GET /commutes just after  const { items } = await fetch...()
InitAggregate ==
  /\ version \in {1, 2}
  /\ haveKey = TRUE
  /\ haveCampaign = TRUE
  /\ route = "commutes"
  /\ pc = "loop"
  /\ tried = << >>
  /\ results = << >>
  /\ fetched = << >>
  /\ answers = << >>
  /\ items \in LoopInputs
  /\ out = Returned(items, urlA, 200)
  /\ resp = NoResponse
  /\ served = 0
  /\ act = actManualRide
  /\ verdict = NoVerdict
  /\ commuteTypes = COMMUTE_ACTIVITY_TYPES
  /\ decided = << >>
  /\ cursor = 0
  /\ individuals = << >>
  /\ teams = << >>
  /\ orgs = << >>
  /\ pager = PagerIdle
  /\ PairIdle
  /\ p3 = P3Idle
  /\ LaterIdle

\* slip: a turn of the loop counts its activity twice
LoopStep_twice ==
  /\ pc = "loop"
  /\ cursor < Len(items)
  /\ LET once == addActivity([individuals |-> individuals, teams |-> teams, orgs |-> orgs],
                             items[cursor + 1])
         acc == addActivity(once, items[cursor + 1])
     IN  /\ individuals' = acc.individuals
         /\ teams' = acc.teams
         /\ orgs' = acc.orgs
  /\ cursor' = cursor + 1
  /\ UNCHANGED <<svc, act, verdict, commuteTypes, decided, items, pager, pairVars, p3, laterVars>>

\* one turn of  for (const a of items)
LoopStep ==
  /\ pc = "loop"
  /\ cursor < Len(items)
  /\ LET acc == addActivity([individuals |-> individuals, teams |-> teams, orgs |-> orgs],
                            items[cursor + 1])
     IN  /\ individuals' = acc.individuals
         /\ teams' = acc.teams
         /\ orgs' = acc.orgs
  /\ cursor' = cursor + 1
  /\ UNCHANGED <<svc, act, verdict, commuteTypes, decided, items, pager, pairVars, p3, laterVars>>

\* res.json({ individuals: ... .sort(sortDesc), teams: ..., organisations: ... })
Respond ==
  /\ pc = "loop"
  /\ cursor = Len(items)
  /\ resp' = Send(resp, 200, [kind |-> "leaderboard",
                              individuals |-> sortDesc(individuals),
                              teams |-> sortDesc(teams),
                              organisations |-> sortDesc(orgs)])
  /\ pc' = "done"
  /\ UNCHANGED <<extra, version, haveKey, haveCampaign, route, tried, results,
                 fetched, answers, out, served, act, verdict>>

NextAggregate == LoopStep \/ Respond

SpecAggregate == InitAggregate /\ [][NextAggregate]_vars

----------------------------------------------------------------------------
(* Properties of the aggregation *)

Buckets == {"individuals", "teams", "organisations"}

\* the identifier an activity carries for a bucket, "" when it carries none
RefId(b, a) ==
  IF b = "individuals"
    THEN (IF a.profile.uuid # "" THEN a.profile.uuid ELSE a.profile.profileUuid)
  ELSE IF b = "teams"
    THEN (IF a.team.uuid # "" THEN a.team.uuid ELSE a.team.teamUuid)
  ELSE (IF a.organisation.uuid # "" THEN a.organisation.uuid
        ELSE a.organisation.organisationUuid)

\* the list a leaderboard body has for a bucket
ListOf(body, b) ==
  IF b = "individuals" THEN body.individuals
  ELSE IF b = "teams" THEN body.teams
  ELSE body.organisations

\* the Map the loop keeps for a bucket
MapOf(b) ==
  IF b = "individuals" THEN individuals
  ELSE IF b = "teams" THEN teams
  ELSE orgs

Answered == pc = "done" /\ resp.status = 200 /\ resp.body.kind = "leaderboard"

\* the orderings of a list
Reorderings(list) ==
  {[i \in 1..Len(list) |-> list[f[i]]] : f \in Permutations(1..Len(list))}

PointsOf(rows) == [i \in 1..Len(rows) |-> rows[i].points]
Scores(rows) == {<<rows[i].uuid, rows[i].points>> : i \in 1..Len(rows)}

\* C12 as the specification states it: the response to a list is the response
\* to every reordering of it, rows, contents and row order included
C12_SameForEveryOrder ==
  Answered =>
    \A q \in Reorderings(items) :
      LET other == leaderboards(q)
      IN  \A b \in Buckets : ListOf(other, b) = ListOf(resp.body, b)

\* C12: for every reordering of the fetched activities each list of GET
\* /commutes has the same identifiers with the same points and the same
\* sequence of points; the order among rows with equal points and the name and
\* avatar of a row follow the order of the activities
C12_SamePointsForEveryOrder ==
  Answered =>
    \A q \in Reorderings(items) :
      LET other == leaderboards(q)
      IN  \A b \in Buckets :
            /\ Scores(ListOf(other, b)) = Scores(ListOf(resp.body, b))
            /\ PointsOf(ListOf(other, b)) = PointsOf(ListOf(resp.body, b))

\* a response some reordering of whose activities gives another row order and
\* another row name
C12_Witness ==
  /\ Answered
  /\ \E q \in Reorderings(items) :
       LET other == leaderboards(q)
       IN  /\ other.teams # resp.body.teams
           /\ Scores(other.teams) = Scores(resp.body.teams)
           /\ \E i \in 1..Len(resp.body.individuals) :
                /\ resp.body.individuals[i].points = 2
                /\ resp.body.individuals[i].name # other.individuals[i].name

NonIncreasing(rows) ==
  \A i, j \in 1..Len(rows) : i < j => rows[i].points >= rows[j].points

\* C13: in every successful GET /commutes response each of the three lists is
\* in descending order of points: no row comes after a row with fewer points
C13_SortedDescending ==
  Answered => \A b \in Buckets : NonIncreasing(ListOf(resp.body, b))

\* a response in which sorting moved a row of the Map
C13_Witness ==
  /\ Answered
  /\ resp.body.teams # teams
  /\ Len(resp.body.teams) = 3
  /\ resp.body.teams[1].points > resp.body.teams[2].points

\* the positions of the qualifying activities that carry an identifier
Commutes(b, id) ==
  {k \in 1..Len(items) : isLikelyCommute(items[k]) /\ RefId(b, items[k]) = id}

\* where an identifier is first met among the qualifying activities, 0 if never
FirstSeen(b, id) ==
  IF Commutes(b, id) = {} THEN 0
  ELSE CHOOSE k \in Commutes(b, id) : \A m \in Commutes(b, id) : k <= m

\* C14: in every successful GET /commutes response two rows of a list that
\* have the same points are in the order in which their identifiers were first
\* met among the qualifying activities
C14_TiesKeepFirstEncounter ==
  Answered =>
    \A b \in Buckets :
      LET rows == ListOf(resp.body, b)
      IN  \A i, j \in 1..Len(rows) :
            i < j /\ rows[i].points = rows[j].points
              => FirstSeen(b, rows[i].uuid) < FirstSeen(b, rows[j].uuid)

\* a response with two tied rows that sorting placed after a later row
C14_Witness ==
  /\ Answered
  /\ Len(resp.body.teams) = 3
  /\ resp.body.teams[2].points = resp.body.teams[3].points
  /\ resp.body.teams[1] = teams[3]

\* the identifiers a bucket can hold, and those a list holds
IdsOf(b, rows) ==
  ({RefId(b, a) : a \in LoopActivities} \ {""}) \cup {rows[i].uuid : i \in 1..Len(rows)}

\* C15: in every successful GET /commutes response, for each bucket and each
\* identifier, the points of its row are the number of fetched activities that
\* isLikelyCommute accepts and that carry the identifier in that bucket, and
\* the identifier has a row exactly when that number is at least 1
C15_PointsCountCommutes ==
  Answered =>
    \A b \in Buckets :
      LET rows == ListOf(resp.body, b)
      IN  \A id \in IdsOf(b, rows) :
            LET n == Cardinality(Commutes(b, id))
                at == {i \in 1..Len(rows) : rows[i].uuid = id}
            IN  /\ n >= 1 <=> at # {}
                /\ \A i \in at : rows[i].points = n

\* a response with a row of 2 points whose identifier is carried by a third,
\* rejected activity, and an identifier carried by rejected activities only
C15_Witness ==
  /\ Answered
  /\ \E i \in 1..Len(resp.body.individuals) :
       /\ resp.body.individuals[i].uuid = "p2"
       /\ resp.body.individuals[i].points = 2
  /\ \E k \in 1..Len(items) : items[k] = actStravaYoga
  /\ resp.body.organisations # << >>
  /\ ~\E i \in 1..Len(resp.body.teams) : resp.body.teams[i].uuid = "t1"

RECURSIVE SumPoints(_)
SumPoints(rows) ==
  IF rows = << >> THEN 0 ELSE Head(rows).points + SumPoints(Tail(rows))

\* the points a Map holds for an identifier
PointsFor(rows, id) ==
  SumPoints(SelectSeq(rows, LAMBDA r : r.uuid = id))

UuidsOf(rows) == {rows[i].uuid : i \in 1..Len(rows)}

\* how many of the activities processed so far qualify
QualifiedSoFar ==
  Cardinality({k \in 1..cursor : isLikelyCommute(items[k])})

OneRowPerId(rows) ==
  \A i, j \in 1..Len(rows) : rows[i].uuid = rows[j].uuid => i = j

\* one turn of the loop changed the rows of a Map from old to new
AtMostOnePoint(old, new) ==
  LET changed == {id \in UuidsOf(old) \cup UuidsOf(new) :
                    PointsFor(new, id) # PointsFor(old, id)}
  IN  /\ Cardinality(changed) <= 1
      /\ \A id \in changed : PointsFor(new, id) = PointsFor(old, id) + 1
      /\ Len(new) <= Len(old) + 1

\* C16: after any prefix of the activity list each Map of the loop of GET
\* /commutes has at most one row per identifier and a sum of points that is at
\* most the number of qualifying activities processed so far, and each turn of
\* the loop adds at most 1 point to at most one row of each Map
C16_LoopInvariant ==
  /\ [](\A rows \in {individuals, teams, orgs} :
          OneRowPerId(rows) /\ SumPoints(rows) <= QualifiedSoFar)
  /\ [][cursor' # cursor =>
          /\ AtMostOnePoint(individuals, individuals')
          /\ AtMostOnePoint(teams, teams')
          /\ AtMostOnePoint(orgs, orgs')]_vars

\* the loop part way through a list, with a row of 2 points and a Map that
\* one of the qualifying activities passed by
C16_Witness ==
  /\ pc = "loop"
  /\ cursor >= 3
  /\ cursor < Len(items)
  /\ \E i \in 1..Len(teams) : teams[i].points = 2
  /\ Len(teams) = 2
  /\ SumPoints(individuals) < QualifiedSoFar

\* the identifiers a turn of the loop reads from its activity
pidOfActivity(a) == Or(a.profile.uuid, a.profile.profileUuid)
tidOfActivity(a) == Or(a.team.uuid, a.team.teamUuid)
oidOfActivity(a) == Or(a.organisation.uuid, a.organisation.organisationUuid)

\* C27: a turn of the loop of GET /commutes for an activity that
\* isLikelyCommute rejects leaves the three Maps as they were, and a turn for
\* a qualifying activity leaves as it was every Map for which the activity
\* carries no identifier
C27_RejectedOrUnidentifiedLeavesMaps ==
  [][(pc = "loop" /\ cursor' = cursor + 1) =>
       LET a == items[cursor + 1]
       IN  /\ ~isLikelyCommute(a) =>
                 (individuals' = individuals /\ teams' = teams /\ orgs' = orgs)
           /\ isLikelyCommute(a) =>
                 /\ (pidOfActivity(a) = "" => individuals' = individuals)
                 /\ (tidOfActivity(a) = "" => teams' = teams)
                 /\ (oidOfActivity(a) = "" => orgs' = orgs)]_vars

\* the loop after a counted activity, a rejected one, and then a qualifying
\* one that names no organisation: the organisation rows are those of the
\* first activity, and the individuals have the points of the first and third
C27_Witness ==
  /\ pc = "loop"
  /\ cursor = 3
  /\ isLikelyCommute(items[1])
  /\ oidOfActivity(items[1]) # ""
  /\ ~isLikelyCommute(items[2])
  /\ oidOfActivity(items[2]) # ""
  /\ isLikelyCommute(items[3])
  /\ oidOfActivity(items[3]) = ""
  /\ pidOfActivity(items[3]) # ""
  /\ SumPoints(orgs) = 1
  /\ SumPoints(individuals) = 2

----------------------------------------------------------------------------
(* Properties of the resolver's requests *)

\* C17: within one call of fetchAllActivitiesWithFallback no candidate URL is
\* requested twice, so a candidate that failed is never requested again, the
\* call makes at most four upstream requests, and each new request is for a
\* URL the call has not requested before
C17_NoRetries ==
  /\ [](InResolver =>
          /\ Len(fetched) <= 4
          /\ \A i, j \in 1..Len(fetched) : fetched[i] = fetched[j] => i = j)
  /\ [][InResolver /\ route' = route /\ fetched' # fetched =>
          \E u \in {Candidates[k] : k \in 1..4} :
            /\ \A i \in 1..Len(fetched) : fetched[i] # u
            /\ fetched' = Append(fetched, u)]_vars

\* a call that saw three candidates fail and ended on the fourth request
C17_Witness ==
  /\ InResolver
  /\ pc = "done"
  /\ Len(fetched) = 4
  /\ answers[1].status = 404
  /\ answers[2].status = 401
  /\ answers[3].status = 404
  /\ Is200(answers[4])
  /\ out.state = "returned"

----------------------------------------------------------------------------
(* The paginating fetchAllActivities of part_000 and part_002 *)

\* const limit = 100, and the safety cap of  if (page > 50) break
limit == 100
pageCap == 50

Parts == {"part_000", "part_002"}

\* the URL of a page: part_000 asks /activities?campaign=, part_002
\* /campaigns/{id}/activities, both with page= and limit=
pageUrl(part, pg) ==
  [path |-> IF part = "part_000" THEN "/activities?campaign={id}&status=APPROVED&private=0"
            ELSE "/campaigns/{id}/activities",
   page |-> pg, limit |-> limit]

\* what "data" is in a page body: an array of n items, a value that is not
\* iterable, or nothing (missing, null, false, 0, "")
PageData(kind, n) == [kind |-> kind, n |-> n]
PageBodies ==
  {[parses |-> FALSE, data |-> PageData("missing", 0)]}
  \cup {[parses |-> TRUE, data |-> d] :
          d \in {PageData("missing", 0), PageData("object", 0)}
                \cup {PageData("array", n) : n \in {0, limit - 1, limit, limit + 1}}}

\* what fetch() gives for a page: a response, or a rejection
PageAnswers ==
  {[net |-> "ok", status |-> st, body |-> b] : st \in {200, 204, 404, 500}, b \in PageBodies}
  \cup {[net |-> "error"]}

\* res.ok
ok(res) == res.status >= 200 /\ res.status <= 299

msgRaiselyApi(st) == <<"Raisely API ", st>>
msgParse == <<"Unexpected token in JSON">>
msgNotIterable == <<"items is not iterable">>
msgFetchFailed == <<"fetch failed">>

\* slip: the cap lets page 51 through
afterPage_capLate(pg, n) ==
  IF n < limit THEN "break"
  ELSE IF pg + 1 > pageCap + 1 THEN "break"
  ELSE "again"

\* the end of a turn of while (true), for page pg that held n items:
\* if (items.length < limit) break;  page += 1;  if (page > 50) break;
afterPage(pg, n) ==
  IF n < limit THEN "break"
  ELSE IF pg + 1 > pageCap THEN "break"
  ELSE "again"

InitPages ==
  /\ version = 1
  /\ haveKey \in BOOLEAN
  /\ haveCampaign \in BOOLEAN
  /\ route = "none"
  /\ pc = "idle"
  /\ tried = << >>
  /\ results = << >>
  /\ fetched = << >>
  /\ answers = << >>
  /\ out = NoOut
  /\ resp = NoResponse
  /\ served = 0
  /\ act = actManualRide
  /\ verdict = NoVerdict
  /\ commuteTypes = COMMUTE_ACTIVITY_TYPES
  /\ decided = << >>
  /\ LoopIdle
  /\ \E part \in Parts : pager = [PagerIdle EXCEPT !.part = part, !.pc = "start"]
  /\ PairIdle
  /\ p3 = P3Idle
  /\ LaterIdle

notPager == <<svc, act, verdict, commuteTypes, decided, loopVars, pairVars, p3, laterVars>>

\* fetchAllActivities up to its first await: the two configuration checks,
\* then the request of page 1
CallFetchAll ==
  /\ pager.pc = "start"
  /\ IF ~haveKey
       THEN pager' = [pager EXCEPT !.pc = "threw", !.message = <<msgMissingKey>>]
     ELSE IF ~haveCampaign
       THEN pager' = [pager EXCEPT !.pc = "threw", !.message = <<msgMissingCampaign>>]
     ELSE pager' = [pager EXCEPT !.pc = "fetch", !.page = 1,
                                 !.log = <<pageUrl(pager.part, 1)>>]
  /\ UNCHANGED notPager

\* await fetch(url) settles:  if (!res.ok) throw new Error(`Raisely API ${res.status}`)
PageResponse ==
  /\ pager.pc = "fetch"
  /\ \E res \in PageAnswers :
       IF res.net = "error"
         THEN pager' = [pager EXCEPT !.pc = "threw", !.res = res, !.message = msgFetchFailed]
       ELSE IF ~ok(res)
         THEN pager' = [pager EXCEPT !.pc = "threw", !.res = res,
                                     !.message = msgRaiselyApi(res.status)]
       ELSE pager' = [pager EXCEPT !.pc = "json", !.res = res]
  /\ UNCHANGED notPager

\* await res.json() settles, and the rest of the turn of while (true)
PageBody ==
  /\ pager.pc = "json"
  /\ LET body == pager.res.body
         n == IF body.data.kind = "array" THEN body.data.n ELSE 0
     IN  IF ~body.parses
           THEN pager' = [pager EXCEPT !.pc = "threw", !.message = msgParse]
         ELSE IF body.data.kind = "object"
           THEN pager' = [pager EXCEPT !.pc = "threw", !.message = msgNotIterable]
         ELSE IF afterPage(pager.page, n) = "break"
           THEN pager' = [pager EXCEPT !.pc = "returned", !.all = @ + n, !.last = n,
                                       !.page = IF n < limit THEN @ ELSE @ + 1]
         ELSE pager' = [pager EXCEPT !.pc = "fetch", !.all = @ + n, !.last = n,
                                     !.page = @ + 1,
                                     !.log = Append(@, pageUrl(pager.part, pager.page + 1))]
  /\ UNCHANGED notPager

NextPages == CallFetchAll \/ PageResponse \/ PageBody

SpecPages == InitPages /\ [][NextPages]_vars

\* every fetch() and every res.json() settles, and the awaiting call resumes
FairPages ==
  SpecPages /\ WF_vars(CallFetchAll) /\ WF_vars(PageResponse) /\ WF_vars(PageBody)

PagerEnded == pager.pc \in {"returned", "threw"}

----------------------------------------------------------------------------
(* Two GET /commutes requests in flight at once *)

Requests == {1, 2}

PairAnswers ==
  {Response(200, Body(TRUE, TRUE, <<actManualRide>>)), Response(200, BodyInvalid),
   Response(404, BodyNoData), Response(401, BodyInvalid), NetworkError}

\* the locals of a handler of GET /commutes and of its resolver call; met is
\* set once the request has taken a step while the other one was in flight
NewRequest ==
  [pc |-> "new", answers |-> << >>, out |-> NoOut, resp |-> NoResponse, met |-> FALSE]

InFlight(r) == r.pc \in {"awaitA", "awaitB", "awaitC", "awaitD"}

\* slip: tried is one module-level array, not one array per call
push_shared(arrays, i, u) == [j \in DOMAIN arrays |-> Append(arrays[j], u)]

\* tried.push(u) in call i, on the array that call created at  const tried = []
push(arrays, i, u) == [arrays EXCEPT ![i] = Append(@, u)]

InitPair ==
  /\ version \in {1, 2}
  /\ haveKey = TRUE
  /\ haveCampaign = TRUE
  /\ route = "none"
  /\ pc = "idle"
  /\ tried = << >>
  /\ results = << >>
  /\ fetched = << >>
  /\ answers = << >>
  /\ out = NoOut
  /\ resp = NoResponse
  /\ served = 0
  /\ act = actManualRide
  /\ verdict = NoVerdict
  /\ commuteTypes = COMMUTE_ACTIVITY_TYPES
  /\ decided = << >>
  /\ LoopIdle
  /\ pager = PagerIdle
  /\ inflight = [i \in Requests |-> NewRequest]
  /\ triedOf = [i \in Requests |-> << >>]
  /\ p3 = P3Idle
  /\ LaterIdle

notPair == <<svc, act, verdict, commuteTypes, decided, loopVars, pager, p3, laterVars>>

\* request i reaches its handler, which runs up to the first await
Arrive(i) ==
  /\ inflight[i].pc = "new"
  /\ IF checkConfig.state = "threw"
       THEN /\ inflight' = [inflight EXCEPT ![i].pc = "done", ![i].out = checkConfig,
                                             ![i].resp = commutesResponse(NoResponse, checkConfig)]
            /\ triedOf' = triedOf
       ELSE /\ inflight' = [inflight EXCEPT ![i].pc = "awaitA", ![i].out = Pending,
                                             ![i].met = \E j \in Requests \ {i} : InFlight(inflight[j])]
            /\ triedOf' = push(triedOf, i, urlA)
  /\ UNCHANGED notPair

\* the fetch request i awaits settles, and request i runs up to its next
\* await or to its response
Settle(i) ==
  /\ InFlight(inflight[i])
  /\ \E ans \in PairAnswers :
       LET at == inflight[i].pc
           o == IF at = "awaitA" THEN afterA(ans)
                ELSE IF at = "awaitB" THEN afterMiddle(urlB, ans)
                ELSE IF at = "awaitC" THEN afterMiddle(urlC, ans)
                ELSE afterD(ans, triedOf[i])
           nextUrl == IF at = "awaitA" THEN urlB ELSE IF at = "awaitB" THEN urlC ELSE urlD
           nextPc == IF at = "awaitA" THEN "awaitB"
                     ELSE IF at = "awaitB" THEN "awaitC" ELSE "awaitD"
           meets == inflight[i].met \/ \E j \in Requests \ {i} : InFlight(inflight[j])
       IN  IF o.state = "pending"
             THEN /\ inflight' = [inflight EXCEPT ![i].pc = nextPc, ![i].out = o,
                                                   ![i].answers = Append(@, ans),
                                                   ![i].met = meets]
                  /\ triedOf' = push(triedOf, i, nextUrl)
             ELSE /\ inflight' = [inflight EXCEPT ![i].pc = "done", ![i].out = o,
                                                   ![i].answers = Append(@, ans),
                                                   ![i].met = meets,
                                                   ![i].resp = commutesResponse(NoResponse, o)]
                  /\ triedOf' = triedOf
  /\ UNCHANGED notPair

NextPair == \E i \in Requests : Arrive(i) \/ Settle(i)

SpecPair == InitPair /\ [][NextPair]_vars

\* what a request that runs alone ends with, for the answers it got
AloneOutcome(got) ==
  IF afterA(got[1]).state # "pending" THEN afterA(got[1])
  ELSE IF afterMiddle(urlB, got[2]).state # "pending" THEN afterMiddle(urlB, got[2])
  ELSE IF afterMiddle(urlC, got[3]).state # "pending" THEN afterMiddle(urlC, got[3])
  ELSE afterD(got[4], Candidates)

\* C19: with two GET /commutes requests in flight at once, stepping in any
\* order at their awaits, the attempted-URL list of each call holds that
\* call's own attempts only, and each response is the response the request
\* gets when it runs alone against the answers it received
C19_ResponsesAsIfAlone ==
  \A i \in DOMAIN inflight :
    /\ InFlight(inflight[i]) =>
         triedOf[i] = SubSeq(Candidates, 1, Len(inflight[i].answers) + 1)
    /\ inflight[i].pc = "done" =>
         /\ IsPrefix(triedOf[i], Candidates)
         /\ inflight[i].out = AloneOutcome(inflight[i].answers)
         /\ inflight[i].resp = commutesResponse(NoResponse, AloneOutcome(inflight[i].answers))

\* both requests answered after stepping while the other was in flight: one
\* with the total failure and its four attempts, the other with a leaderboard
\* from its second candidate
C19_Witness ==
  /\ inflight # << >>
  /\ \A i \in Requests : inflight[i].pc = "done" /\ inflight[i].met
  /\ inflight[1].resp.status = 500
  /\ Len(inflight[1].answers) = 4
  /\ Len(triedOf[1]) = 4
  /\ inflight[2].resp.status = 200
  /\ Len(inflight[2].answers) = 2
  /\ inflight[2].resp.body.individuals # << >>

----------------------------------------------------------------------------
(* part_003: fetchActivities with the per-profile fallback, /probe, /commutes *)

\* new Set([...]) of part_003's isLikelyCommute holds the same nine labels
COMMUTE_TYPES == COMMUTE_ACTIVITY_TYPES

\* isLikelyCommute of part_003: the last line accepts any source
isLikelyCommute3(a) ==
  LET type == trim(OrEmpty(a.type))
      source == toLowerCase(OrEmpty(a.source))
      typeIsCommute == includes(COMMUTE_TYPES, type)
  IN  IF source = sManual /\ (typeIsCommute \/ type = sEmpty) THEN TRUE
      ELSE IF source = sStrava /\ (flagged(a) \/ typeIsCommute) THEN TRUE
      ELSE typeIsCommute \/ flagged(a)

RECURSIVE accumulate3(_, _)
accumulate3(acc, list) ==
  IF list = << >> THEN acc
  ELSE accumulate3(IF isLikelyCommute3(Head(list)) THEN countActivity(acc, Head(list)) ELSE acc,
                   Tail(list))

leaderboards3(list) ==
  LET acc == accumulate3(EmptyBoards, list)
  IN  [individuals |-> sortDesc(acc.individuals),
       teams |-> sortDesc(acc.teams),
       organisations |-> sortDesc(acc.orgs)]

\* an upstream URL of part_003: its shape and the identifier put into it
Url(shape, id) == [shape |-> shape, id |-> id]

campaignAttempts == <<Url(urlA, "{campaign}"), Url(urlB, "{campaign}")>>
listProfiles == Url("/profiles?campaign={id}&limit=200", "{campaign}")
tries(pid) ==
  <<Url("/profiles/{pid}/activities?order=desc&sort=createdAt&limit=100", pid),
    Url("/activities?profile={pid}&order=desc&sort=createdAt&limit=100", pid),
    Url("/activities?campaignProfile={pid}&order=desc&sort=createdAt&limit=100", pid)>>

\* the profiles a listing can hold: with uuid, with profileUuid, with neither
listedAnn == [uuid |-> "p1", profileUuid |-> ""]
listedBob == [uuid |-> "", profileUuid |-> "p2"]
listedNobody == [uuid |-> "", profileUuid |-> ""]
ProfileLists ==
  {<< >>, <<listedAnn>>, <<listedNobody, listedBob>>, <<listedAnn, listedBob>>}

CampaignAnswers ==
  {Response(200, Body(TRUE, TRUE, <<actManualRide, actStravaFlagged>>)),
   Response(200, BodyNoData), Response(404, BodyInvalid), Response(401, BodyNoData),
   NetworkError}
ListAnswers ==
  {Response(200, Body(TRUE, TRUE, l)) : l \in ProfileLists}
  \cup {Response(200, BodyNoData), Response(404, BodyNoData), Response(401, BodyInvalid),
        NetworkError}
ShapeAnswers ==
  {Response(200, Body(TRUE, TRUE, <<actManualRide>>)), Response(200, BodyNoData),
   Response(404, BodyNoData), Response(401, BodyNoData), Response(403, BodyInvalid),
   NetworkError}

\* getJson: a rejected fetch rejects it; a body that is not JSON leaves null
getJson(ans, url) ==
  IF ans.net = "error" THEN [threw |-> TRUE, status |-> 0, body |-> JsonNull, url |-> url]
  ELSE [threw |-> FALSE, status |-> ans.status, body |-> resJsonOrNull(ans.body), url |-> url]

\* status === 200 && body && Array.isArray(body.data)
usable(r) == r.status = 200 /\ ~r.body.isNull /\ r.body.hasData

Returned3(path, used, list, st) ==
  [state |-> "returned", path |-> path, usedEndpoint |-> used, items |-> list,
   status |-> st, message |-> ""]
Threw3(msg) == [NoOut3 EXCEPT !.state = "threw", !.message = msg]

\* p.uuid || p.profileUuid
pidOf(pr) == Or(pr.uuid, pr.profileUuid)

\* the next profile after position i that has an identifier, 0 when none is left
nextProfile(profiles, i) ==
  LET rest == {j \in (i + 1)..Len(profiles) : pidOf(profiles[j]) # ""}
  IN  IF rest = {} THEN 0 ELSE CHOOSE j \in rest : \A m \in rest : j <= m

\* GET /commutes of part_003 once fetchActivities has ended
commutesResponse3(o) ==
  IF o.state = "returned"
    THEN LET b == leaderboards3(o.items)
         IN  Send(NoResponse, 200, [kind |-> "leaderboard", individuals |-> b.individuals,
                                    teams |-> b.teams, organisations |-> b.organisations])
    ELSE Send(NoResponse, 500, [kind |-> "error", error |-> o.message])

\* GET /probe of part_003 once fetchActivities has ended
probeResponse3(o) ==
  IF o.state = "returned"
    THEN Send(NoResponse, 200, [kind |-> "probe", ok |-> TRUE, path |-> o.path,
                                usedEndpoint |-> o.usedEndpoint, status |-> o.status,
                                total |-> Len(o.items), sample |-> slice2(o.items)])
    ELSE Send(NoResponse, 500, [kind |-> "probe", ok |-> FALSE, error |-> o.message])

handlerResponse3(rt, o) ==
  IF rt = "commutes" THEN commutesResponse3(o) ELSE probeResponse3(o)

InitProfiles ==
  /\ version = 1
  /\ haveKey = TRUE
  /\ haveCampaign = TRUE
  /\ route = "none"
  /\ pc = "idle"
  /\ tried = << >>
  /\ results = << >>
  /\ fetched = << >>
  /\ answers = << >>
  /\ out = NoOut
  /\ resp = NoResponse
  /\ served = 0
  /\ act = actManualRide
  /\ verdict = NoVerdict
  /\ commuteTypes = COMMUTE_ACTIVITY_TYPES
  /\ decided = << >>
  /\ LoopIdle
  /\ pager = PagerIdle
  /\ PairIdle
  /\ p3 = [P3Idle EXCEPT !.pc = "new"]
  /\ LaterIdle

notP3 == <<svc, act, verdict, commuteTypes, decided, loopVars, pager, pairVars, laterVars>>

\* fetchActivities ends with o and its caller responds
finish3(q, o) == [q EXCEPT !.pc = "done", !.out = o, !.resp = handlerResponse3(q.route, o)]

\* the request of url is made and awaited
ask3(q, url, at, k) == [q EXCEPT !.pc = at, !.k = k, !.asked = Append(@, url)]

\* the per-profile loop goes on to the profile after position i, or the call
\* returns what it has
toProfile3(q, i) ==
  LET j == nextProfile(q.profiles, i)
  IN  IF j = 0
        THEN finish3(q, Returned3("profiles", "per-profile fallback", q.all, 200))
        ELSE ask3([q EXCEPT !.pi = j], tries(pidOf(q.profiles[j]))[1], "shape", 1)

\* a handler of part_003 that calls fetchActivities, up to the first await
Enter3(rt) ==
  /\ p3.pc = "new"
  /\ p3' = ask3([p3 EXCEPT !.route = rt], campaignAttempts[1], "campaign", 1)
  /\ UNCHANGED notP3

GetCommutes3 == Enter3("commutes")
GetProbe3 == Enter3("probe")

\* what is kept of an answer: how the fetch ended, the status, and the array
\* under "data" when the body has one
seen(ans) ==
  [net |-> ans.net, status |-> ans.status,
   array |-> ans.net = "ok" /\ ans.body.parses /\ ans.body.hasData,
   data |-> IF ans.net = "ok" /\ ans.body.parses /\ ans.body.hasData
              THEN ans.body.data ELSE << >>]

\* slip: the listing is requested as soon as one campaign-level URL failed
CampaignAnswer_skipsSecond ==
  /\ p3.pc = "campaign"
  /\ \E ans \in CampaignAnswers :
       LET r == getJson(ans, campaignAttempts[p3.k])
           q == [p3 EXCEPT !.got = Append(@, seen(ans))]
       IN  IF r.threw THEN p3' = finish3(q, Threw3(msgNetwork))
           ELSE IF usable(r)
             THEN p3' = finish3(q, Returned3("campaign", r.url, r.body.data, r.status))
           ELSE p3' = ask3(q, listProfiles, "list", 0)
  /\ UNCHANGED notP3

\* await getJson(u) of the loop over campaignAttempts settles
CampaignAnswer ==
  /\ p3.pc = "campaign"
  /\ \E ans \in CampaignAnswers :
       LET r == getJson(ans, campaignAttempts[p3.k])
           q == [p3 EXCEPT !.got = Append(@, seen(ans))]
       IN  IF r.threw THEN p3' = finish3(q, Threw3(msgNetwork))
           ELSE IF usable(r)
             THEN p3' = finish3(q, Returned3("campaign", r.url, r.body.data, r.status))
           ELSE IF p3.k < Len(campaignAttempts)
             THEN p3' = ask3(q, campaignAttempts[p3.k + 1], "campaign", p3.k + 1)
           ELSE p3' = ask3(q, listProfiles, "list", 0)
  /\ UNCHANGED notP3

\* await getJson(profiles?campaign=...) settles
ListAnswer ==
  /\ p3.pc = "list"
  /\ \E ans \in ListAnswers :
       LET profList == getJson(ans, listProfiles)
           q == [p3 EXCEPT !.got = Append(@, seen(ans))]
       IN  IF profList.threw THEN p3' = finish3(q, Threw3(msgNetwork))
           ELSE IF ~usable(profList)
             THEN p3' = finish3(q, Returned3("profiles", "list profiles", << >>, profList.status))
           ELSE p3' = toProfile3([q EXCEPT !.profiles = profList.body.data], 0)
  /\ UNCHANGED notP3

\* await getJson(u) of the loop over tries settles
ShapeAnswer ==
  /\ p3.pc = "shape"
  /\ \E ans \in ShapeAnswers :
       LET u == tries(pidOf(p3.profiles[p3.pi]))[p3.k]
           r == getJson(ans, u)
           q == [p3 EXCEPT !.got = Append(@, seen(ans))]
           nextShape == IF p3.k < 3
                          THEN ask3(q, tries(pidOf(p3.profiles[p3.pi]))[p3.k + 1], "shape", p3.k + 1)
                          ELSE toProfile3(q, p3.pi)
       IN  IF r.threw THEN p3' = finish3(q, Threw3(msgNetwork))
           ELSE IF usable(r)
             THEN p3' = toProfile3([q EXCEPT !.all = @ \o r.body.data], p3.pi)
           ELSE IF r.status = 404 THEN p3' = nextShape
           ELSE IF r.status = 401 \/ r.status = 403 THEN p3' = toProfile3(q, p3.pi)
           ELSE p3' = nextShape
  /\ UNCHANGED notP3

NextProfiles == GetCommutes3 \/ GetProbe3 \/ CampaignAnswer \/ ListAnswer \/ ShapeAnswer

SpecProfiles == InitProfiles /\ [][NextProfiles]_vars

\* both campaign-level URLs and the profile listing answered, none with 200
AllCandidatesFailed3 ==
  /\ p3.pc = "done"
  /\ Len(p3.got) = 3
  /\ \A i \in 1..3 : p3.got[i].net = "ok" /\ p3.got[i].status # 200

\* C20: in part_003, when both campaign-level URLs and the profile listing
\* answer with a status other than 200, GET /commutes answers 500 with a body
\* that holds the attempted URLs and statuses
C20_AllFailedAnswers500 ==
  p3.route = "commutes" /\ AllCandidatesFailed3 =>
    /\ p3.resp.status = 500
    /\ p3.resp.body.kind = "error"
    /\ "tried" \in DOMAIN p3.resp.body
    /\ p3.resp.body.tried = p3.asked

----------------------------------------------------------------------------
(* Properties of fetchActivities of part_003 *)

\* an answer with status 200 and an array under "data"
Usable3(g) == g.net = "ok" /\ g.status = 200 /\ g.array

IsCampaignUrl(u) == \E k \in 1..Len(campaignAttempts) : u = campaignAttempts[k]

\* C21: fetchActivities requests the two campaign-level URLs first and in
\* order; the profile listing and the per-profile URLs are requested only after
\* both answered without status 200 and an array; when one of the two answers
\* with them the call returns its data with path "campaign" and has requested
\* nothing after it
C21_FallbackAfterBothCampaignUrls ==
  /\ \A i \in 1..Len(p3.asked) :
       IF i <= 2 THEN p3.asked[i] = campaignAttempts[i] ELSE ~IsCampaignUrl(p3.asked[i])
  /\ Len(p3.asked) >= 3 =>
       /\ p3.asked[3] = listProfiles
       /\ \A k \in 1..2 : p3.got[k].net = "ok" /\ ~Usable3(p3.got[k])
  /\ \A k \in 1..2 :
       k <= Len(p3.got) /\ Usable3(p3.got[k]) =>
         /\ p3.pc = "done"
         /\ Len(p3.asked) = k
         /\ p3.out.state = "returned"
         /\ p3.out.path = "campaign"
         /\ p3.out.usedEndpoint = campaignAttempts[k]
         /\ p3.out.items = p3.got[k].data

\* the first campaign-level URL answered 200 without an array, the second with
\* one, and the call returned the data of the second
C21_Witness ==
  /\ p3.pc = "done"
  /\ Len(p3.asked) = 2
  /\ p3.got[1].status = 200
  /\ ~p3.got[1].array
  /\ Usable3(p3.got[2])
  /\ p3.out.path = "campaign"
  /\ Len(p3.out.items) = 2

----------------------------------------------------------------------------
(* Properties of the diagnostics of src/index.js *)

\* C22: when all four candidates answered with a status other than 200, the
\* detail of the error fetchAllActivitiesWithFallback throws has the status of
\* candidate D as lastStatus and the JSON of D's body as lastBody, null when
\* that body is not JSON
C22_LastStatusAndBodyOfD ==
  TotalFailure =>
    /\ out.state = "threw"
    /\ out.message = msgNot200
    /\ ~out.detail.isNull
    /\ out.detail.lastStatus = answers[Len(answers)].status
    /\ out.detail.lastStatus # 200
    /\ IF answers[4].body.parses
         THEN /\ ~out.detail.lastBody.isNull
              /\ out.detail.lastBody.hasData = answers[4].body.hasData
              /\ out.detail.lastBody.data = answers[4].body.data
         ELSE out.detail.lastBody.isNull

\* a total failure in which C and D answered with different statuses and D's
\* body was JSON with data, after a candidate whose body was not JSON
C22_Witness ==
  /\ TotalFailure
  /\ answers[3].status = 401
  /\ ~answers[3].body.parses
  /\ answers[4].status = 404
  /\ out.detail.lastStatus = 404
  /\ out.detail.lastBody.data = <<actManualRide>>

\* the first candidate that answered 200, 0 when none did
First200 ==
  LET at == {k \in 1..Len(answers) : Is200(answers[k])}
  IN  IF at = {} THEN 0 ELSE CHOOSE k \in at : \A m \in at : k <= m

\* C23: whenever some candidate answered 200, GET /probe answers 200 with
\* ok = true, the URL of the first such candidate as usedEndpoint, status 200,
\* the number of items of its data as count and its first two items at most as
\* sample
C23_ProbeShowsFirst200 ==
  (route = "probe" /\ pc = "done" /\ First200 # 0) =>
    LET data == DataOf(answers[First200])
    IN  /\ resp.status = 200
        /\ resp.body.ok
        /\ resp.body.usedEndpoint = Candidates[First200]
        /\ resp.body.status = 200
        /\ resp.body.count = Len(data)
        /\ resp.body.sample = SubSeq(data, 1, IF Len(data) < 2 THEN Len(data) ELSE 2)

----------------------------------------------------------------------------
(* Properties of the per-profile fallback of part_003 *)

\* the position of a URL among the three shapes of its profile, 0 for the
\* campaign-level URLs and the listing
ShapeOf(u) ==
  IF u.id = "{campaign}" THEN 0
  ELSE CHOOSE k \in 1..3 : tries(u.id)[k] = u

\* the identifiers of the listed profiles that have one
ListedPids == {pidOf(p3.profiles[j]) : j \in 1..Len(p3.profiles)} \ {""}

\* the items of the usable per-profile answers, in the order they came
RECURSIVE GatheredFrom(_)
GatheredFrom(i) ==
  IF i > Len(p3.got) THEN << >>
  ELSE (IF Usable3(p3.got[i]) THEN p3.got[i].data ELSE << >>) \o GatheredFrom(i + 1)

\* the shapes of one profile are requested in order, from the first
ShapesInOrder ==
  \A i \in 4..Len(p3.asked) :
    /\ ShapeOf(p3.asked[i]) \in 1..3
    /\ ShapeOf(p3.asked[i]) > 1 =>
         /\ p3.asked[i - 1] = tries(p3.asked[i].id)[ShapeOf(p3.asked[i]) - 1]
         /\ ~Usable3(p3.got[i - 1])
         /\ p3.got[i - 1].status \notin {401, 403}

\* what follows an answered per-profile request
ShapeOutcomes ==
  \A i \in 4..Len(p3.got) :
    LET u == p3.asked[i]
        g == p3.got[i]
        onward == i < Len(p3.asked) /\ p3.asked[i + 1].id = u.id
    IN  /\ Usable3(g) => ~onward
        /\ g.net = "ok" /\ g.status \in {401, 403} => ~onward
        /\ g.net = "ok" /\ g.status = 404 /\ ShapeOf(u) < 3 =>
             i < Len(p3.asked) /\ p3.asked[i + 1] = tries(u.id)[ShapeOf(u) + 1]

\* C24: in the per-profile fallback the three shapes of a profile are tried in
\* order; a 200 with an array ends the shapes of that profile and its items are
\* appended once; a 404 moves on to the next shape; a 401 or 403 skips the
\* remaining shapes of the profile; and whatever a profile's requests end with,
\* the call goes on to the remaining profiles: it ends only when every listed
\* profile that has an identifier has been requested
C24_PerProfileShapes ==
  Len(p3.asked) >= 4 =>
    /\ ShapesInOrder
    /\ ShapeOutcomes
    /\ p3.all = GatheredFrom(4)
    /\ p3.pc = "done" =>
         \A pid \in ListedPids : \E i \in 4..Len(p3.asked) : p3.asked[i] = tries(pid)[1]

----------------------------------------------------------------------------
(* part_001: listProfilesSmart *)

\* the four profile selectors and the campaign metadata URL
selCampaign == Url("/profiles?campaign={id}&limit=200", "{campaign}")
selCampaignProfile == Url("/profiles?campaignProfile={id}&limit=200", "{campaign}")
selSite(siteSlug) == Url("/profiles?site={slug}&limit=200", siteSlug)
selActive == Url("/profiles?campaign={id}&status=active&limit=200", "{campaign}")
campaignMeta == Url("/campaigns/{id}", "{campaign}")

\* the path a result is labelled with; the site one carries the slug
Path(text, siteSlug) == [text |-> text, slug |-> siteSlug]

\* what upstream answers to a selector
SelectorAnswers ==
  {Response(200, Body(TRUE, TRUE, <<listedAnn>>)), Response(200, Body(TRUE, TRUE, << >>)),
   Response(200, BodyNoData), Response(404, Body(TRUE, TRUE, <<listedBob>>)),
   Response(401, BodyInvalid), NetworkError}

\* what upstream answers to the campaign metadata URL: the body, when it is
\* JSON, has data.site.slug or not; "" is a slug that is missing or empty
MetaBody(parses, siteSlug) == [parses |-> parses, slug |-> siteSlug]
MetaAnswers ==
  {[net |-> "ok", status |-> 200, body |-> MetaBody(TRUE, "site-a")],
   [net |-> "ok", status |-> 200, body |-> MetaBody(TRUE, "")],
   [net |-> "ok", status |-> 404, body |-> MetaBody(FALSE, "")],
   [net |-> "ok", status |-> 404, body |-> MetaBody(TRUE, "site-b")],
   [net |-> "error", status |-> 0, body |-> MetaBody(FALSE, "")]}

\* meta.data?.site?.slug after  body?.data || {}
slugOf(ans) == IF ans.body.parses THEN ans.body.slug ELSE ""

\* slip: an empty array is taken as a list of profiles
nonEmptyList_allowsEmpty(r) == r.status = 200 /\ ~r.body.isNull /\ r.body.hasData

\* res.status === 200 && Array.isArray(body?.data) && body.data.length > 0
nonEmptyList(r) ==
  r.status = 200 /\ ~r.body.isNull /\ r.body.hasData /\ Len(r.body.data) > 0

NoOutSel == [state |-> "none", list |-> << >>, path |-> Path("", ""), status |-> 0,
             tried |-> << >>, message |-> ""]

InitSelectors ==
  /\ version = 1
  /\ haveKey \in BOOLEAN
  /\ haveCampaign \in BOOLEAN
  /\ route = "none"
  /\ pc = "idle"
  /\ tried = << >>
  /\ results = << >>
  /\ fetched = << >>
  /\ answers = << >>
  /\ out = NoOut
  /\ resp = NoResponse
  /\ served = 0
  /\ act = actManualRide
  /\ verdict = NoVerdict
  /\ commuteTypes = COMMUTE_ACTIVITY_TYPES
  /\ decided = << >>
  /\ LoopIdle
  /\ pager = PagerIdle
  /\ PairIdle
  /\ p3 = P3Idle
  /\ sel = [pc |-> "start", tried |-> << >>, asked |-> << >>, got |-> << >>,
            slug |-> "", out |-> NoOutSel]
  /\ board = [pc |-> "idle"]
  /\ lister = [pc |-> "idle"]

notSel == <<svc, act, verdict, commuteTypes, decided, loopVars, pager, pairVars, p3,
            board, lister>>

\* authHeaders(), evaluated before each fetch
authThrows == ~haveKey \/ ~haveCampaign
authMessage == IF ~haveKey THEN msgMissingKey ELSE msgMissingCampaign

selThrew(q, msg) == [q EXCEPT !.pc = "threw", !.out = [NoOutSel EXCEPT !.state = "threw", !.message = msg]]

selReturned(q, list, path, st) ==
  [q EXCEPT !.pc = "returned",
            !.out = [state |-> "returned", list |-> list, path |-> path, status |-> st,
                     tried |-> q.tried, message |-> ""]]

\* tried.push(u) and the request of u; authHeaders throws before the fetch
selAsk(q, u, at) ==
  LET pushed == [q EXCEPT !.tried = Append(@, u)]
  IN  IF authThrows THEN selThrew(pushed, authMessage)
      ELSE [pushed EXCEPT !.pc = at, !.asked = Append(@, u)]

\* the request of the campaign metadata, which is not pushed on tried
metaAsk(q) ==
  IF authThrows THEN selThrew(q, authMessage)
  ELSE [q EXCEPT !.pc = "meta", !.asked = Append(@, campaignMeta)]

\* listProfilesSmart up to its first await
CallListProfilesSmart ==
  /\ sel.pc = "start"
  /\ sel' = selAsk(sel, selCampaign, "u1")
  /\ UNCHANGED notSel

\* the answer to selector 1: by campaign
Selector1Answer ==
  /\ sel.pc = "u1"
  /\ \E ans \in SelectorAnswers :
       LET r == getJson(ans, selCampaign)
           q == [sel EXCEPT !.got = Append(@, seen(ans))]
       IN  IF r.threw THEN sel' = selThrew(q, msgNetwork)
           ELSE IF nonEmptyList(r)
             THEN sel' = selReturned(q, r.body.data, Path("profiles?campaign", ""), 200)
           ELSE sel' = selAsk(q, selCampaignProfile, "u2")
  /\ UNCHANGED notSel

\* the answer to selector 2: by campaignProfile; then getCampaignMeta is called
Selector2Answer ==
  /\ sel.pc = "u2"
  /\ \E ans \in SelectorAnswers :
       LET r == getJson(ans, selCampaignProfile)
           q == [sel EXCEPT !.got = Append(@, seen(ans))]
       IN  IF r.threw THEN sel' = selThrew(q, msgNetwork)
           ELSE IF nonEmptyList(r)
             THEN sel' = selReturned(q, r.body.data, Path("profiles?campaignProfile", ""), 200)
           ELSE sel' = metaAsk(q)
  /\ UNCHANGED notSel

\* the answer to getCampaignMeta: selector 3 when there is a site slug, else
\* selector 4
MetaAnswer ==
  /\ sel.pc = "meta"
  /\ \E ans \in MetaAnswers :
       LET q == [sel EXCEPT !.got = Append(@, [net |-> ans.net, status |-> ans.status,
                                                array |-> FALSE, data |-> << >>]),
                            !.slug = slugOf(ans)]
       IN  IF ans.net = "error" THEN sel' = selThrew(q, msgNetwork)
           ELSE IF slugOf(ans) # ""
             THEN sel' = selAsk(q, selSite(slugOf(ans)), "u3")
           ELSE sel' = selAsk(q, selActive, "u4")
  /\ UNCHANGED notSel

\* the answer to selector 3: by site slug
Selector3Answer ==
  /\ sel.pc = "u3"
  /\ \E ans \in SelectorAnswers :
       LET r == getJson(ans, selSite(sel.slug))
           q == [sel EXCEPT !.got = Append(@, seen(ans))]
       IN  IF r.threw THEN sel' = selThrew(q, msgNetwork)
           ELSE IF nonEmptyList(r)
             THEN sel' = selReturned(q, r.body.data, Path("profiles?site=", sel.slug), 200)
           ELSE sel' = selAsk(q, selActive, "u4")
  /\ UNCHANGED notSel

\* the answer to selector 4: campaign + active; then the final return
Selector4Answer ==
  /\ sel.pc = "u4"
  /\ \E ans \in SelectorAnswers :
       LET r == getJson(ans, selActive)
           q == [sel EXCEPT !.got = Append(@, seen(ans))]
       IN  IF r.threw THEN sel' = selThrew(q, msgNetwork)
           ELSE IF nonEmptyList(r)
             THEN sel' = selReturned(q, r.body.data, Path("profiles?campaign&status=active", ""), 200)
           ELSE sel' = selReturned(q, IF ~r.body.isNull /\ r.body.hasData THEN r.body.data ELSE << >>,
                                   Path("profiles (empty)", ""), r.status)
  /\ UNCHANGED notSel

NextSelectors ==
  \/ CallListProfilesSmart
  \/ Selector1Answer
  \/ Selector2Answer
  \/ MetaAnswer
  \/ Selector3Answer
  \/ Selector4Answer

SpecSelectors == InitSelectors /\ [][NextSelectors]_vars

\* an answer with status 200 and a non-empty array
Qualifies(g) == g.net = "ok" /\ g.status = 200 /\ g.array /\ g.data # << >>

\* the requests of a call in the order the claim gives, for a site slug
SelectorOrder(siteSlug) ==
  IF siteSlug = "" THEN <<selCampaign, selCampaignProfile, campaignMeta, selActive>>
  ELSE <<selCampaign, selCampaignProfile, campaignMeta, selSite(siteSlug), selActive>>

\* the label of a selector
PathOf(u) ==
  IF u = selCampaign THEN Path("profiles?campaign", "")
  ELSE IF u = selCampaignProfile THEN Path("profiles?campaignProfile", "")
  ELSE IF u = selActive THEN Path("profiles?campaign&status=active", "")
  ELSE Path("profiles?site=", u.id)

\* C25: listProfilesSmart requests its selectors in the order campaign,
\* campaignProfile, site slug, campaign+active, the site one only when the
\* campaign metadata has a site slug; it returns the list of the first selector
\* that answers 200 with a non-empty array and requests none after it; the
\* tried list it returns holds the profile URLs requested, in request order;
\* when no selector qualifies it returns path "profiles (empty)" with the
\* status of the last selector
C25_SelectorsInOrder ==
  LET n == Len(sel.got)
      first == {i \in 1..n : sel.asked[i] # campaignMeta /\ Qualifies(sel.got[i])}
  IN  sel.pc # "idle" =>
        /\ IsPrefix(sel.asked, SelectorOrder(sel.slug))
        /\ \A i \in 1..n : i < Len(sel.asked) => i \notin first
        /\ \A i \in first :
             /\ sel.pc = "returned"
             /\ Len(sel.asked) = i
             /\ sel.out.list = sel.got[i].data
             /\ sel.out.path = PathOf(sel.asked[i])
             /\ sel.out.status = 200
        /\ sel.pc = "returned" =>
             /\ sel.out.tried = SelectSeq(sel.asked, LAMBDA u : u # campaignMeta)
             /\ first = {} =>
                  /\ sel.asked = SelectorOrder(sel.slug)
                  /\ sel.out.path = Path("profiles (empty)", "")
                  /\ sel.out.status = sel.got[n].status
        /\ (n >= 3 /\ sel.got[3].net = "ok" /\ Len(sel.asked) >= 4) =>
             (sel.asked[4] = selActive <=> sel.slug = "")

\* no selector qualified, the metadata had a site slug, and the call returned
\* the status of the fourth selector, which differs from the third's
C25_Witness ==
  /\ sel.pc = "returned"
  /\ Len(sel.asked) = 5
  /\ sel.slug = "site-a"
  /\ sel.got[1].status = 200
  /\ sel.got[4].status = 404
  /\ sel.got[5].status = 401
  /\ sel.out.status = 401
  /\ Len(sel.out.tried) = 4
  /\ sel.out.path.text = "profiles (empty)"

----------------------------------------------------------------------------
(* part_002, third definition: GET /commutes by profile and distance *)

\* new Set([...]) of the third definition
COMMUTE_TYPES_KM ==
  {<<"R","u","n">>,
   <<"R","u","n","n","i","n","g">>,
   <<"W","a","l","k">>,
   <<"W","a","l","k","i","n","g">>,
   <<"W","h","e","e","l","c","h","a","i","r">>,
   <<"W","h","e","e","l","c","h","a","i","r","i","n","g">>,
   <<"R","i","d","e">>,
   <<"C","y","c","l","i","n","g">>,
   <<"B","i","k","e">>,
   <<"E","-","B","i","k","e"," ","R","i","d","e">>,
   <<"C","a","n","o","e">>,
   <<"K","a","y","a","k">>,
   <<"R","o","w">>,
   <<"S","w","i","m">>,
   <<"S","w","i","m","m","m","i","n","g">>,
   <<"S","w","i","m","m","i","n","g">>}

sCommuteLower == <<"c","o","m","m","u","t","e">>
sMyCommute == <<"M","y"," ","C","o","m","m","u","t","e">>
sLunch == <<"L","u","n","c","h"," ","w","a","l","k">>
sMetres == <<"M">>
sKm == <<"k","m">>

\* String.prototype.includes
contains(s, w) ==
  \E i \in 0..(Len(s) - Len(w)) : SubSeq(s, i + 1, i + Len(w)) = w

\* a distance as upstream sends it: nothing, a number, an object with a
\* numeric value and a unit, or something else; numbers are whole
NoDistance == [kind |-> "none", value |-> 0, unit |-> sEmpty]
NumDistance(n) == [kind |-> "number", value |-> n, unit |-> sEmpty]
ObjDistance(v, unit) == [kind |-> "object", value |-> v, unit |-> unit]
OddDistance == [kind |-> "other", value |-> 0, unit |-> sEmpty]

\* an activity as the third definition reads it; flag is the truthiness of
\* a.isCommute || a.metadata.isCommute || a.attributes.commute
KmActivity(ty, sport, title, desc, flag, d) ==
  [type |-> ty, sport |-> sport, title |-> title, description |-> desc,
   flag |-> flag, distance |-> d]

\* looksLikeCommute
looksLikeCommute(a) ==
  LET t == trim(IF OrEmpty(a.type) # sEmpty THEN OrEmpty(a.type) ELSE OrEmpty(a.sport))
      title == toLowerCase(a.title)
      desc == toLowerCase(a.description)
      inSet == t \in COMMUTE_TYPES_KM
      keyword == contains(title, sCommuteLower) \/ contains(desc, sCommuteLower)
  IN  a.flag \/ inSet \/ keyword

\* distanceKm, in thousandths of a kilometre
distanceKm(a) ==
  LET d == a.distance
  IN  IF d.kind = "none" \/ (d.kind = "number" /\ d.value = 0) THEN 0
      ELSE IF d.kind = "number"
        THEN (IF d.value > 1000 THEN d.value ELSE d.value * 1000)
      ELSE IF d.kind = "object"
        THEN (IF toLowerCase(d.unit) \in {<<"m">>, <<"m","e","t","e","r">>, <<"m","e","t","e","r","s">>}
                THEN d.value ELSE d.value * 1000)
      ELSE 0

\* acts.filter(looksLikeCommute)
commuteActsOf(acts) == SelectSeq(acts, looksLikeCommute)

\* commuteActs.reduce((s, a) => s + distanceKm(a), 0)
RECURSIVE sumKm(_)
sumKm(acts) == IF acts = << >> THEN 0 ELSE distanceKm(Head(acts)) + sumKm(Tail(acts))

\* Math.round(km * 100) / 100, in thousandths
round2(km) == ((km + 5) \div 10) * 10

kmRide == KmActivity(Str(sRide), Undef, sLunch, sEmpty, FALSE, NumDistance(12))
kmTitled == KmActivity(Str(sYoga), Undef, sMyCommute, sEmpty, FALSE, ObjDistance(2500, sMetres))
kmYoga == KmActivity(Str(sYoga), Undef, sLunch, sEmpty, FALSE, NumDistance(5))
kmRun == KmActivity(Undef, Str(sRun), sEmpty, sEmpty, FALSE, NumDistance(1500))
kmWalkNoDistance == KmActivity(Str(sWalk), Undef, sEmpty, sEmpty, FALSE, NoDistance)
kmFlaggedBack == KmActivity(Undef, Undef, sEmpty, sEmpty, TRUE, ObjDistance(-3, sKm))
kmOddDistance == KmActivity(Str(sRide), Undef, sEmpty, sMyCommute, FALSE, OddDistance)

\* how fetchProfileActivities settles: with an array, or by a rejection
Fetched(list) == [threw |-> FALSE, list |-> list]
Rejected == [threw |-> TRUE, list |-> << >>]
ActsOutcomes ==
  {Rejected, Fetched(<< >>), Fetched(<<kmRide>>), Fetched(<<kmYoga>>),
   Fetched(<<kmWalkNoDistance, kmOddDistance>>), Fetched(<<kmTitled, kmRun>>),
   Fetched(<<kmFlaggedBack>>), Fetched(<<kmYoga, kmRide, kmFlaggedBack>>)}

\* the profiles a listing holds
Profile(uuid, type, name) == [uuid |-> uuid, type |-> type, name |-> name]
ListedProfiles ==
  {Profile("p1", "INDIVIDUAL", "Ann"), Profile("g1", "GROUP", "Red"),
   Profile("o1", "ORGANISATION", "Acme"), Profile("x1", "", "Other")}
Listings == SeqsUpTo(ListedProfiles, MaxListed)

EmptyBuckets == [individuals |-> << >>, teams |-> << >>, organisations |-> << >>]

\* slip: the comparison that drops a profile is km < 0
keeps_zero(km) == ~(km < 0)

\* if (km <= 0) continue
keeps(km) == ~(km <= 0)

\* the list a row goes to, by p.type
bucketOf(type) ==
  IF type = "GROUP" THEN "teams"
  ELSE IF type = "ORGANISATION" THEN "organisations"
  ELSE "individuals"

\* buckets.<list>.push(row)
pushRow(buckets, pr, km, n) ==
  LET row == [uuid |-> pr.uuid, name |-> pr.name, km |-> round2(km), count |-> n]
      to == bucketOf(pr.type)
  IN  [buckets EXCEPT ![to] = Append(@, row)]

\* Array.prototype.sort with (a, b) => b.km - a.km, stable
insertByKm(sorted, r) ==
  LET before == {i \in 1..Len(sorted) : r.km - sorted[i].km <= 0}
      k == Cardinality(before)
  IN  SubSeq(sorted, 1, k) \o <<r>> \o SubSeq(sorted, k + 1, Len(sorted))

RECURSIVE sortByKm(_)
sortByKm(rows) ==
  IF rows = << >> THEN << >>
  ELSE insertByKm(sortByKm(SubSeq(rows, 1, Len(rows) - 1)), rows[Len(rows)])

InitBoard ==
  /\ version = 1
  /\ haveKey = TRUE
  /\ haveCampaign = TRUE
  /\ route = "none"
  /\ pc = "idle"
  /\ tried = << >>
  /\ results = << >>
  /\ fetched = << >>
  /\ answers = << >>
  /\ out = NoOut
  /\ resp = NoResponse
  /\ served = 0
  /\ act = actManualRide
  /\ verdict = NoVerdict
  /\ commuteTypes = COMMUTE_ACTIVITY_TYPES
  /\ decided = << >>
  /\ LoopIdle
  /\ pager = PagerIdle
  /\ PairIdle
  /\ p3 = P3Idle
  /\ sel = [pc |-> "idle"]
  /\ board = [pc |-> "new", listed |-> FALSE, profiles |-> << >>, i |-> 0,
              buckets |-> EmptyBuckets, seen |-> << >>, resp |-> NoResponse]
  /\ lister = [pc |-> "idle"]

notBoard == <<svc, act, verdict, commuteTypes, decided, loopVars, pager, pairVars, p3,
              sel, lister>>

\* the loop is over: the three sorts and res.json(buckets)
respondBoard(q) ==
  [q EXCEPT !.pc = "done",
            !.resp = Send(NoResponse, 200,
                          [kind |-> "buckets",
                           individuals |-> sortByKm(q.buckets.individuals),
                           teams |-> sortByKm(q.buckets.teams),
                           organisations |-> sortByKm(q.buckets.organisations)])]

\* the loop goes on to the profile after position i, or ends
toProfile(q, i) ==
  IF i < Len(q.profiles) THEN [q EXCEPT !.pc = "acts", !.i = i + 1]
  ELSE respondBoard(q)

\* the handler up to  await fetchProfilesByCampaign(500)
GetCommutesKm ==
  /\ board.pc = "new"
  /\ board' = [board EXCEPT !.pc = "profiles"]
  /\ UNCHANGED notBoard

\* fetchProfilesByCampaign settles: a rejection goes to the catch of the handler
ProfilesSettle ==
  /\ board.pc = "profiles"
  /\ \/ board' = [board EXCEPT !.pc = "done",
                                !.resp = Send(NoResponse, 500, [kind |-> "error",
                                              error |-> msgNot200])]
     \/ \E l \in Listings :
          board' = toProfile([board EXCEPT !.listed = TRUE, !.profiles = l], 0)
  /\ UNCHANGED notBoard

\* fetchProfileActivities(p.uuid, 50) settles, inside try { } catch { }; the
\* rest of the turn of the loop up to  await wait(40)
ActsSettle ==
  /\ board.pc = "acts"
  /\ \E o \in ActsOutcomes :
       LET acts == IF o.threw THEN << >> ELSE o.list
           commuteActs == commuteActsOf(acts)
           km == sumKm(commuteActs)
           q == [board EXCEPT !.seen = Append(@, o)]
       IN  IF ~keeps(km) THEN board' = toProfile(q, board.i)
           ELSE board' = [q EXCEPT !.pc = "wait",
                                   !.buckets = pushRow(@, board.profiles[board.i], km,
                                                       Len(commuteActs))]
  /\ UNCHANGED notBoard

\* await wait(40) settles
WaitDone ==
  /\ board.pc = "wait"
  /\ board' = toProfile(board, board.i)
  /\ UNCHANGED notBoard

NextBoard == GetCommutesKm \/ ProfilesSettle \/ ActsSettle \/ WaitDone

SpecBoard == InitBoard /\ [][NextBoard]_vars

BoardLists == {"individuals", "teams", "organisations"}

\* the thousandths of a kilometre the commute-like activities of an outcome sum to
KmOfOutcome(o) == IF o.threw THEN 0 ELSE sumKm(SelectSeq(o.list, looksLikeCommute))

\* the positions of the listing that have a row with the uuid in a list
RowsFor(body, name, uuid) == {k \in 1..Len(body[name]) : body[name][k].uuid = uuid}

\* C26: in the response of GET /commutes of part_002 a listed profile is in at
\* most one of the three lists, the one its type selects (GROUP teams,
\* ORGANISATION organisations, anything else individuals), and is in a list only
\* if the distances of its commute-like activities sum to more than 0; a
\* profile whose activities could not be fetched counts as having none, and
\* the request is still answered with 200
C26_OneListByTypeAndDistance ==
  (board.pc = "done" /\ board.listed) =>
    /\ board.resp.status = 200
    /\ Len(board.seen) = Len(board.profiles)
    /\ \A j \in 1..Len(board.profiles) :
         LET pr == board.profiles[j]
             inLists == {name \in BoardLists : RowsFor(board.resp.body, name, pr.uuid) # {}}
         IN  /\ Cardinality(inLists) <= 1
             /\ inLists \subseteq
                  {IF pr.type = "GROUP" THEN "teams"
                   ELSE IF pr.type = "ORGANISATION" THEN "organisations"
                   ELSE "individuals"}
             /\ inLists # {} =>
                  \E m \in 1..Len(board.profiles) :
                    board.profiles[m].uuid = pr.uuid /\ KmOfOutcome(board.seen[m]) > 0
             /\ \A name \in BoardLists :
                  Cardinality(RowsFor(board.resp.body, name, pr.uuid))
                    <= Cardinality({m \in 1..Len(board.profiles) :
                                     board.profiles[m].uuid = pr.uuid
                                     /\ KmOfOutcome(board.seen[m]) > 0})
    /\ \A name \in BoardLists : \A k \in 1..Len(board.resp.body[name]) :
         \E j \in 1..Len(board.profiles) :
           board.profiles[j].uuid = board.resp.body[name][k].uuid

\* a response with a team row, while the fetch for the other profile was
\* rejected and that profile has no row
C26_Witness ==
  /\ board.pc = "done"
  /\ Len(board.profiles) = 2
  /\ board.profiles[1].type = "INDIVIDUAL"
  /\ board.seen[1].threw
  /\ board.profiles[2].type = "GROUP"
  /\ board.resp.status = 200
  /\ board.resp.body.individuals = << >>
  /\ Len(board.resp.body.teams) = 1
  /\ board.resp.body.teams[1].km = 4000

----------------------------------------------------------------------------
(* Every request of src/index.js is answered *)

\* an awaited fetch settles: upstream returns or the call throws
UpstreamSettles == AnswerA \/ AnswerB \/ AnswerC \/ AnswerD \/ PeekAnswer \/ PeekAllAnswer

\* the service with every awaited upstream call settling in the end
FairSpec == Spec /\ WF_vars(UpstreamSettles)

\* C28: every request to GET /commutes, GET /probe and GET /peek of
\* src/index.js gets exactly one response in the end, with status 200 or 500,
\* when every upstream call returns or throws in the end: no handler sends a
\* second response, and none is over without one, a network failure included
C28_ExactlyOneResponse ==
  /\ [](resp.sent <= 1 /\ (resp.sent = 1 => resp.status \in {200, 500}))
  /\ [](pc = "done" => resp.sent = 1)
  /\ [][resp.sent = 1 => (resp' = resp \/ pc' = "idle")]_vars
  /\ (route \in {"commutes", "probe", "peek"} /\ pc # "done")
       ~> (pc = "done" /\ resp.sent = 1)

\* the second request of the process, a GET /peek whose third fetch was
\* rejected, answered once with 500
C28_Witness ==
  /\ served = 1
  /\ route = "peek"
  /\ version = 1
  /\ pc = "done"
  /\ Len(answers) = 3
  /\ answers[3].net = "error"
  /\ resp.sent = 1
  /\ resp.status = 500

----------------------------------------------------------------------------
(* part_003: GET /peek *)

\* the six checks of GET /peek, in the order they are awaited
peekChecks3 ==
  <<Url("/campaigns/{id}", "{campaign}"),
    Url("/campaign-profiles/{id}", "{campaign}"),
    Url("/activities?limit=1", ""),
    Url("/activities?campaign={id}", "{campaign}"),
    Url("/campaigns/{id}/activities", "{campaign}"),
    Url("/profiles?campaign={id}&limit=1", "{campaign}")>>

Peek3Answers ==
  {Response(200, BodyNoData), Response(404, BodyInvalid), Response(401, BodyNoData),
   NetworkError}

InitPeek3 ==
  /\ version = 1
  /\ haveKey \in BOOLEAN
  /\ haveCampaign \in BOOLEAN
  /\ route = "none"
  /\ pc = "idle"
  /\ tried = << >>
  /\ results = << >>
  /\ fetched = << >>
  /\ answers = << >>
  /\ out = NoOut
  /\ resp = NoResponse
  /\ served = 0
  /\ act = actManualRide
  /\ verdict = NoVerdict
  /\ commuteTypes = COMMUTE_ACTIVITY_TYPES
  /\ decided = << >>
  /\ LoopIdle
  /\ pager = PagerIdle
  /\ PairIdle
  /\ p3 = [P3Idle EXCEPT !.pc = "new"]
  /\ LaterIdle

\* the statuses the checks have stored so far
checksOf(got) == [i \in 1..Len(got) |-> got[i].status]

\* the handler up to its first await: the configuration test answers 500
GetPeek3 ==
  /\ p3.pc = "new"
  /\ IF ~haveKey \/ ~haveCampaign
       THEN p3' = [p3 EXCEPT !.route = "peek", !.pc = "done",
                             !.resp = Send(NoResponse, 500, [kind |-> "peek", env |-> env])]
       ELSE p3' = ask3([p3 EXCEPT !.route = "peek"], peekChecks3[1], "check", 1)
  /\ UNCHANGED notP3

\* await getJson(...) of a check settles. The handler has no try block: when
\* getJson rejects, the promise of the handler rejects, which Express 4 leaves
\* unanswered and Express 5 passes to its error handler, which answers 500
PeekCheck3 ==
  /\ p3.pc = "check"
  /\ \E ans \in Peek3Answers :
       LET r == getJson(ans, peekChecks3[p3.k])
           q == [p3 EXCEPT !.got = Append(@, seen(ans))]
       IN  IF r.threw
             THEN \/ p3' = [q EXCEPT !.pc = "rejected"]
                  \/ p3' = [q EXCEPT !.pc = "done",
                                     !.resp = Send(NoResponse, 500, [kind |-> "express error"])]
           ELSE IF p3.k < Len(peekChecks3)
             THEN p3' = ask3(q, peekChecks3[p3.k + 1], "check", p3.k + 1)
           ELSE p3' = [q EXCEPT !.pc = "done",
                                !.resp = Send(NoResponse, 200,
                                              [kind |-> "peek", env |-> env,
                                               check |-> checksOf(q.got)])]
  /\ UNCHANGED notP3

NextPeek3 == GetPeek3 \/ PeekCheck3

SpecPeek3 == InitPeek3 /\ [][NextPeek3]_vars

\* every awaited check settles in the end
FairPeek3 == SpecPeek3 /\ WF_vars(GetPeek3) /\ WF_vars(PeekCheck3)

\* C29: every GET /peek request to part_003 gets exactly one response in the
\* end, also when one of its six upstream checks throws instead of returning
\* a status
C29_PeekAlwaysAnswered ==
  /\ [](p3.resp.sent <= 1)
  /\ [](p3.pc = "done" => p3.resp.sent = 1)
  /\ <>(p3.pc = "done" /\ p3.resp.sent = 1)

\* when every check returns a status the request is answered once, with the
\* six statuses in the order of the checks
C29_AnsweredWhenChecksReturn ==
  (p3.pc = "done" /\ Len(p3.got) = Len(peekChecks3) /\ p3.got[Len(p3.got)].net = "ok") =>
    /\ p3.resp.sent = 1
    /\ p3.resp.status = 200
    /\ p3.resp.body.check = checksOf(p3.got)
    /\ p3.asked = peekChecks3

----------------------------------------------------------------------------
(* part_002: listAll *)

\* listAll = async (url, limit = 200, max = 1000)
defaultLimit == 200
defaultMax == 1000

sLimitKey == <<"l","i","m","i","t","=">>
sQuestion == <<"?">>
sAmpersand == <<"&">>

\* the decimal text of a number, as a template literal writes it
Digit(d) == <<"0","1","2","3","4","5","6","7","8","9">>[d + 1]
RECURSIVE decimal(_)
decimal(n) == IF n < 10 THEN <<Digit(n)>> ELSE decimal(n \div 10) \o <<Digit(n % 10)>>

\* url.includes("limit=") ? url : `${url}${url.includes("?") ? "&" : "?"}limit=${limit}`
firstUrl(url, lim) ==
  IF contains(url, sLimitKey) THEN url
  ELSE url \o (IF contains(url, sQuestion) THEN sAmpersand ELSE sQuestion)
           \o sLimitKey \o decimal(lim)

\* the URLs listAll is called with
urlWithLimit == <<"/","p","r","o","f","i","l","e","s","?","c","a","m","p","a","i","g","n","=","c","&","l","i","m","i","t","=","5","0","0">>
urlWithQuery == <<"/","p","r","o","f","i","l","e","s","?","c","a","m","p","a","i","g","n","=","c">>
urlPlain == <<"/","c","a","m","p","a","i","g","n","s">>
ListAllUrls == {urlWithLimit, urlWithQuery, urlPlain}

\* the links upstream supplies as links.next; the empty text stands for a
\* missing or empty link, both of which end the loop
linkTwo == <<"/","p","r","o","f","i","l","e","s","?","p","a","g","e","=","2">>
linkThree == <<"/","p","r","o","f","i","l","e","s","?","p","a","g","e","=","3">>
NoLink == << >>
NextLinks == {NoLink, linkTwo, linkThree}

\* a parsed page: the length of the array under each key (-1 when the key is
\* missing), and links.next
Page(data, profiles, activities, campaigns, next) ==
  [data |-> data, profiles |-> profiles, activities |-> activities,
   campaigns |-> campaigns, next |-> next]

\* (j?.data || j?.profiles || j?.activities || j?.campaigns || []).length; an
\* empty array is truthy and is taken
itemsOf(j) ==
  IF j.data >= 0 THEN j.data
  ELSE IF j.profiles >= 0 THEN j.profiles
  ELSE IF j.activities >= 0 THEN j.activities
  ELSE IF j.campaigns >= 0 THEN j.campaigns
  ELSE 0

Pages ==
  {Page(d, -1, -1, -1, l) : d \in {0, 1, defaultLimit}, l \in NextLinks}
  \cup {Page(-1, 1, 0, -1, l) : l \in NextLinks}
  \cup {Page(-1, -1, -1, -1, l) : l \in NextLinks}

\* how  await get(next)  settles: with the parsed page, or by a throw (a
\* rejected fetch, a response that is not ok, a body that is not JSON)
GetOutcomes == {[threw |-> FALSE, j |-> pg] : pg \in Pages}
               \cup {[threw |-> TRUE, j |-> Page(-1, -1, -1, -1, NoLink)]}

InitList ==
  /\ version = 1
  /\ haveKey = TRUE
  /\ haveCampaign = TRUE
  /\ route = "none"
  /\ pc = "idle"
  /\ tried = << >>
  /\ results = << >>
  /\ fetched = << >>
  /\ answers = << >>
  /\ out = NoOut
  /\ resp = NoResponse
  /\ served = 0
  /\ act = actManualRide
  /\ verdict = NoVerdict
  /\ commuteTypes = COMMUTE_ACTIVITY_TYPES
  /\ decided = << >>
  /\ LoopIdle
  /\ pager = PagerIdle
  /\ PairIdle
  /\ p3 = P3Idle
  /\ sel = [pc |-> "idle"]
  /\ board = [pc |-> "idle"]
  /\ \E u \in ListAllUrls :
       lister = [pc |-> "new", url |-> u, next |-> NoLink, n |-> 0, max |-> defaultMax,
                 asked |-> NoLink, paged |-> FALSE, last |-> NoLink]

notList == <<svc, act, verdict, commuteTypes, decided, loopVars, pager, pairVars, p3,
             sel, board>>

\* while (next && out.length < max): the next request, or return out
loopTest(q) ==
  IF q.next # NoLink /\ q.n < q.max
    THEN [q EXCEPT !.pc = "await", !.asked = q.next]
    ELSE [q EXCEPT !.pc = "returned"]

\* listAll up to its first await
CallListAll ==
  /\ lister.pc = "new"
  /\ lister' = loopTest([lister EXCEPT !.next = firstUrl(lister.url, defaultLimit)])
  /\ UNCHANGED notList

\* await get(next) settles; the rest of the turn of the loop and its test
GetSettles ==
  /\ lister.pc = "await"
  /\ \E o \in GetOutcomes :
       IF o.threw THEN lister' = [lister EXCEPT !.pc = "threw"]
       ELSE lister' = loopTest([lister EXCEPT !.n = @ + itemsOf(o.j),
                                              !.next = o.j.next,
                                              !.paged = TRUE,
                                              !.last = o.j.next])
  /\ UNCHANGED notList

NextList == CallListAll \/ GetSettles

SpecList == InitList /\ [][NextList]_vars

\* every page request settles in the end
FairList == SpecList /\ WF_vars(CallListAll) /\ WF_vars(GetSettles)

\* C30: listAll of part_002 ends for every upstream in which each page
\* request returns; it makes no further request once a page has no links.next
\* or once max items are accumulated, and each further request is for the
\* links.next of the page before
C30_ListAllTerminates ==
  /\ <>(lister.pc \in {"returned", "threw"})
  /\ []((lister.pc = "await" /\ lister.paged) =>
          (lister.last # NoLink /\ lister.n < lister.max /\ lister.asked = lister.last))

\* the part of C30 about the requests: after a page a request is made only
\* when the page had a links.next and fewer than max items are accumulated,
\* and it is for that link; the first request is for the URL with its limit
C30_RequestsFollowLinks ==
  /\ (lister.pc = "await" /\ lister.paged) =>
       (lister.last # NoLink /\ lister.n < lister.max /\ lister.asked = lister.last)
  /\ (lister.pc = "await" /\ ~lister.paged) =>
       lister.asked = firstUrl(lister.url, defaultLimit)
  /\ (lister.pc = "returned") =>
       (lister.paged /\ (lister.last = NoLink \/ lister.n >= lister.max))

====
